---- MODULE Spec2Model ----
(***************************************************************************)
(* The data-access service of the news site (DatabaseService: a read cache *)
(* with a time-to-live in front of a relational store), the route handlers *)
(* that call it, and the store it queries.  Requests are asynchronous      *)
(* functions on one event loop: a request runs without interruption up to  *)
(* an await of a store query, the store executes the query at some later   *)
(* moment, and the continuation of the request runs at a moment after      *)
(* that.  Steps of different requests interleave at these points.          *)
(***************************************************************************)
EXTENDS Integers, Sequences, FiniteSets, TLC

(***************************************************************************)
(* Bounds of the model.                                                    *)
(***************************************************************************)
MaxNews == 2        \* rows the store ever inserts (AUTO_INCREMENT stops there)
MaxTicks == 2       \* steps of the clock
MaxViews == 2       \* reads by slug stop being issued at this view count
MaxRows == 5        \* rows of a table news that requests find in place

(***************************************************************************)
(* Values.  An optional value (a JavaScript value that may be undefined)   *)
(* is a sequence of length 0 or 1.  A text is a sequence of characters.    *)
(***************************************************************************)
None == <<>>
Some(v) == <<v>>
IsSome(o) == Len(o) = 1
Val(o) == o[1]

RECURSIVE Join(_)
Join(s) == IF s = <<>> THEN "" ELSE Head(s) \o Join(Tail(s))

Min(a, b) == IF a < b THEN a ELSE b
Max(a, b) == IF a > b THEN a ELSE b

\* Math.floor(a / b) and Math.ceil(a / b) of integers, b # 0.
FloorDiv(a, b) == IF b > 0 THEN a \div b ELSE (0 - a) \div (0 - b)
CeilDiv(a, b) == 0 - FloorDiv(0 - a, b)

Surf == <<"S", "u", "r", "f">>
Reef == <<"R", "e", "e", "f">>
Wave == <<"w", "a", "v", "e">>

(***************************************************************************)
(* The store: tables categories and users are fixed, table news changes.   *)
(***************************************************************************)
CategoryTable ==
    { [id |-> 1, name |-> "Ondas", slug |-> "ondas"],
      [id |-> 2, name |-> "Campeonatos", slug |-> "campeonatos"] }
\* The names of the categories in the order of the collation.
NamesInOrder == <<"Campeonatos", "Ondas">>
NameRank(name) == CHOOSE i \in 1..Len(NamesInOrder) : NamesInOrder[i] = name
UserTable == { [id |-> 1, name |-> "Ana", role |-> "admin"],
               [id |-> 2, name |-> "Rui", role |-> "editor"] }

CategoryIds == { c.id : c \in CategoryTable }
UserIds == { u.id : u \in UserTable }
CategoryName(cid) == (CHOOSE c \in CategoryTable : c.id = cid).name
UserName(uid) == (CHOOSE u \in UserTable : u.id = uid).name

\* 1000 * 60 * 5 milliseconds
CACHE_TTL == 1000 * 60 * 5
DefaultLimit == 10
DefaultOffset == 0

\* The clock advances in steps of half the time-to-live.
TickMs == CACHE_TTL \div 2

(***************************************************************************)
(* SQL evaluation.  A row of news is a record; the table is a function     *)
(* from the identifiers of its rows to the rows.                           *)
(***************************************************************************)
Lower(c) == CASE c = "S" -> "s" [] c = "R" -> "r" [] c = "W" -> "w" [] OTHER -> c

\* text LIKE pat under a case-insensitive collation: % stands for any run of
\* characters, _ for any one character.
RECURSIVE Like(_, _)
Like(text, pat) ==
    IF pat = <<>> THEN text = <<>>
    ELSE IF Head(pat) = "%"
         THEN Like(text, Tail(pat)) \/ (text # <<>> /\ Like(Tail(text), pat))
    ELSE /\ text # <<>>
         /\ (Head(pat) = "_" \/ Lower(Head(pat)) = Lower(Head(text)))
         /\ Like(Tail(text), Tail(pat))

\* JOIN categories c ON n.category_id = c.id JOIN users u ON n.author_id = u.id
Joinable(row) == row.category_id \in CategoryIds /\ row.author_id \in UserIds
Joined(row) ==
    row @@ [category_name |-> CategoryName(row.category_id),
            author_name |-> UserName(row.author_id)]

\* The enumerations of a finite set of rows, newest first when byCreated.
Orderings(S, byCreated) ==
    { f \in [1..Cardinality(S) -> S] :
        /\ \A i, j \in 1..Cardinality(S) : i # j => f[i] # f[j]
        /\ byCreated => \A i, j \in 1..Cardinality(S) :
                            i < j => f[i].created_at >= f[j].created_at }

\* SELECT ... WHERE n.slug = ? AND n.status = 'published': the possible results.
SelectBySlug(n, slug) ==
    Orderings({ Joined(n[id]) : id \in { i \in DOMAIN n :
                  /\ n[i].slug = slug
                  /\ n[i].status = "published"
                  /\ Joinable(n[i]) } }, FALSE)

\* A WHERE clause without the condition on the status.
ListWhereAnyStatus(row, categoryId, featured, searchQuery) ==
    /\ IsSome(categoryId) => row.category_id = Val(categoryId)
    /\ featured => row.is_featured = 1
    /\ (IsSome(searchQuery) /\ Val(searchQuery) # <<>>) =>
          LET searchParam == <<"%">> \o Val(searchQuery) \o <<"%">>
          IN  \/ Like(row.title, searchParam)
              \/ Like(row.content, searchParam)
              \/ Like(row.excerpt, searchParam)

\* The WHERE clause getNewsList builds for both of its queries.
ListWhere(row, categoryId, featured, searchQuery) ==
    /\ row.status = "published"
    /\ IsSome(categoryId) => row.category_id = Val(categoryId)
    /\ featured => row.is_featured = 1
    /\ (IsSome(searchQuery) /\ Val(searchQuery) # <<>>) =>
          LET searchParam == <<"%">> \o Val(searchQuery) \o <<"%">>
          IN  \/ Like(row.title, searchParam)
              \/ Like(row.content, searchParam)
              \/ Like(row.excerpt, searchParam)

\* JavaScript's Array.prototype.slice(start, end) on a sequence.
\* A slice that keeps the whole sequence.
JsSliceAll(s, start, end) == s

JsSlice(s, start, end) ==
    LET len == Len(s)
        from == IF start < 0 THEN Max(len + start, 0) ELSE Min(start, len)
        to == IF end < 0 THEN Max(len + end, 0) ELSE Min(end, len)
    IN  IF to <= from THEN <<>> ELSE SubSeq(s, from + 1, to)

\* LIMIT ? OFFSET ? of a result with both arguments non-negative.
LimitOffset(s, limit, offset) ==
    IF offset >= Len(s) THEN <<>>
    ELSE SubSeq(s, offset + 1, Min(Len(s), offset + limit))

\* The store rejects LIMIT and OFFSET arguments below zero.
ListQueryRejected(limit, offset) == limit < 0 \/ offset < 0

\* SELECT ... ORDER BY n.created_at DESC LIMIT ? OFFSET ?: the possible results
\* (rows of one creation time come in any order).
SelectList(n, limit, offset, categoryId, featured, searchQuery) ==
    { LimitOffset(f, limit, offset) :
        f \in Orderings({ Joined(n[id]) : id \in { i \in DOMAIN n :
                  /\ ListWhere(n[i], categoryId, featured, searchQuery)
                  /\ Joinable(n[i]) } }, TRUE) }

\* A count query that was not given the featured filter.
SelectCountNoFeatured(n, categoryId, featured, searchQuery) ==
    Cardinality({ i \in DOMAIN n : ListWhere(n[i], categoryId, FALSE, searchQuery) })

\* SELECT COUNT(*) as total FROM news n WHERE ...
SelectCount(n, categoryId, featured, searchQuery) ==
    Cardinality({ i \in DOMAIN n : ListWhere(n[i], categoryId, featured, searchQuery) })

\* SELECT c.*, COUNT(n.id) as news_count ... GROUP BY c.id ORDER BY c.name
\* A count of the articles of every status.
CategoryCountAll(n, c) ==
    c @@ [news_count |-> Cardinality({ i \in DOMAIN n : n[i].category_id = c.id })]

CategoryCount(n, c) ==
    c @@ [news_count |-> Cardinality({ i \in DOMAIN n :
                            n[i].category_id = c.id /\ n[i].status = "published" })]
SelectCategories(n) ==
    CHOOSE f \in [1..Cardinality(CategoryTable) -> { CategoryCount(n, c) : c \in CategoryTable }] :
        \A i, j \in 1..Cardinality(CategoryTable) : i < j => NameRank(f[i].name) < NameRank(f[j].name)


(***************************************************************************)
(* Mutations of table news.  NOW() is the clock at the moment the store    *)
(* executes the statement.                                                 *)
(***************************************************************************)
\* The constraints of the schema: slug is unique, category_id and author_id
\* reference rows of categories and users.
InsertRejected(n, d) ==
    \/ \E i \in DOMAIN n : n[i].slug = d.slug
    \/ d.categoryId \notin CategoryIds
    \/ d.authorId \notin UserIds
UpdateRejected(n, id, d) ==
    /\ id \in DOMAIN n
    /\ \/ \E i \in DOMAIN n \ {id} : n[i].slug = d.slug
       \/ d.categoryId \notin CategoryIds

\* INSERT INTO news (...) VALUES (?, ?, ?, ?, ?, ?, ?, ?, ?, NOW(), NOW())
InsertNews(n, id, d, t) ==
    n @@ (id :> [id |-> id, title |-> d.title, slug |-> d.slug, content |-> d.content,
                 excerpt |-> d.excerpt, image_url |-> d.imageUrl,
                 category_id |-> d.categoryId, author_id |-> d.authorId,
                 status |-> d.status, is_featured |-> IF d.isFeatured THEN 1 ELSE 0,
                 view_count |-> 0, created_at |-> t, updated_at |-> t])

\* An UPDATE that also sets view_count = 0.
UpdateNewsRowsResetViews(n, id, d, t) ==
    [i \in DOMAIN n |->
        IF i = id
        THEN [n[i] EXCEPT !.title = d.title, !.slug = d.slug, !.content = d.content,
                          !.excerpt = d.excerpt, !.image_url = d.imageUrl,
                          !.category_id = d.categoryId, !.status = d.status,
                          !.is_featured = IF d.isFeatured THEN 1 ELSE 0,
                          !.view_count = 0, !.updated_at = t]
        ELSE n[i]]

\* An UPDATE that also sets author_id = ?.
UpdateNewsRowsAuthor(n, id, d, t) ==
    [i \in DOMAIN n |->
        IF i = id
        THEN [n[i] EXCEPT !.title = d.title, !.slug = d.slug, !.content = d.content,
                          !.excerpt = d.excerpt, !.image_url = d.imageUrl,
                          !.category_id = d.categoryId, !.author_id = d.authorId,
                          !.status = d.status,
                          !.is_featured = IF d.isFeatured THEN 1 ELSE 0,
                          !.updated_at = t]
        ELSE n[i]]

\* UPDATE news SET title = ?, ..., updated_at = NOW() WHERE id = ?
UpdateNewsRows(n, id, d, t) ==
    [i \in DOMAIN n |->
        IF i = id
        THEN [n[i] EXCEPT !.title = d.title, !.slug = d.slug, !.content = d.content,
                          !.excerpt = d.excerpt, !.image_url = d.imageUrl,
                          !.category_id = d.categoryId, !.status = d.status,
                          !.is_featured = IF d.isFeatured THEN 1 ELSE 0,
                          !.updated_at = t]
        ELSE n[i]]

\* DELETE FROM news WHERE id = ?
DeleteNewsRows(n, id) == [i \in DOMAIN n \ {id} |-> n[i]]

\* UPDATE news SET view_count = view_count + 1 WHERE id = ?
IncrementRows(n, id) ==
    [i \in DOMAIN n |-> IF i = id THEN [n[i] EXCEPT !.view_count = @ + 1] ELSE n[i]]

\* affectedRows taken for the number of statements executed.
AffectedRowsOne(n, id) == 1

\* affectedRows of an UPDATE or DELETE ... WHERE id = ?
AffectedRows(n, id) == IF id \in DOMAIN n THEN 1 ELSE 0

(***************************************************************************)
(* The cache of DatabaseService: a function from the keys present to       *)
(* entries {data, timestamp}.                                              *)
(***************************************************************************)
JsBool(b) == IF b THEN "true" ELSE "false"
JsNum(o) == IF IsSome(o) THEN ToString(Val(o)) ELSE "undefined"
JsText(o) == IF IsSome(o) THEN Join(Val(o)) ELSE "undefined"

SlugKey(slug) == "news_" \o slug
ListKey(limit, offset, categoryId, featured, searchQuery) ==
    "news_list_" \o ToString(limit) \o "_" \o ToString(offset) \o "_"
        \o JsNum(categoryId) \o "_" \o JsBool(featured) \o "_" \o JsText(searchQuery)
CategoriesKey == "categories"

\* isCacheValid with the comparison turned round: only expired entries pass.
isCacheValidReversed(c, cacheKey, t) ==
    IF cacheKey \notin DOMAIN c THEN FALSE
    ELSE (t - c[cacheKey].timestamp) > CACHE_TTL

\* isCacheValid with <= for <: an entry aged exactly CACHE_TTL passes.
isCacheValidInclusive(c, cacheKey, t) ==
    IF cacheKey \notin DOMAIN c THEN FALSE
    ELSE (t - c[cacheKey].timestamp) <= CACHE_TTL

isCacheValid(c, cacheKey, t) ==
    IF cacheKey \notin DOMAIN c THEN FALSE
    ELSE (t - c[cacheKey].timestamp) < CACHE_TTL

CachePut(c, cacheKey, data, t) ==
    [k \in DOMAIN c \cup {cacheKey} |->
        IF k = cacheKey THEN [data |-> data, timestamp |-> t] ELSE c[k]]

EmptyCache == [k \in {} |-> [data |-> None, timestamp |-> 0]]
\* clearCache that leaves the entries in place.
clearCacheKeeps(c) == c

clearCache(c) == EmptyCache


(***************************************************************************)
(* State.                                                                  *)
(*   news, nextId  table news and its AUTO_INCREMENT counter               *)
(*   cache         DatabaseService.cache                                   *)
(*   now           Date.now(), also the store's NOW()                      *)
(*   req           the requests in flight, one slot each                   *)
(*   last          history: the call that returned in the step just taken, *)
(*                 with what it returned (NoCall when none did)            *)
(*   old           history: for each cache entry, whether createNews,      *)
(*                 updateNews or deleteNews has changed the store since    *)
(*                 the entry's payload was read from it ("written"), and   *)
(*                 whether that call has since cleared the cache and       *)
(*                 returned ("cleared"); "no" otherwise                    *)
(***************************************************************************)
VARIABLES news, nextId, cache, now, req, last, old
vars == <<news, nextId, cache, now, req, last, old>>

Reqs == {1, 2}
Idle == [op |-> "idle", pc |-> "idle"]
NoCall == [op |-> "none", via |-> "none"]
EmptyTable == [i \in {} |-> 0]

\* A write has changed the store: every payload read before it is old.
Written(o, changed) == IF changed /\ o = "no" THEN "written" ELSE o
MarkOld(rq, changed) ==
    [r \in Reqs |-> IF rq[r].op # "idle"
                    THEN [rq[r] EXCEPT !.old = Written(@, changed)] ELSE rq[r]]
\* The write has cleared the cache and returns.
Cleared(o) == IF o = "no" THEN "no" ELSE "cleared"
MarkCleared(rq) ==
    [r \in Reqs |-> IF rq[r].op # "idle"
                    THEN [rq[r] EXCEPT !.old = Cleared(@)] ELSE rq[r]]
OldPut(o, cacheKey, v) ==
    [k \in DOMAIN o \cup {cacheKey} |-> IF k = cacheKey THEN v ELSE o[k]]

\* The response of the route handler a call was made by: PUT and DELETE of
\* /api/news/[id] answer 404 when the service returns false, 200 when it
\* returns true, and 500 from the catch block when it throws.
Response(status, success) == Some([status |-> status, success |-> success])
\* PUT and DELETE answering a write that threw as if it had succeeded.
RespondFallback(via, ret, threw) ==
    IF via \in {"PUT", "DELETE"}
    THEN IF threw THEN Response(200, TRUE)
         ELSE IF ~ret THEN Response(404, FALSE)
         ELSE Response(200, TRUE)
    ELSE None

Respond(via, ret, threw) ==
    IF via \in {"PUT", "DELETE"}
    THEN IF threw THEN Response(500, FALSE)
         ELSE IF ~ret THEN Response(404, FALSE)
         ELSE Response(200, TRUE)
    ELSE None

ReadOps == {"getNewsBySlug", "getNewsList", "getCategories"}
WriteOps == {"createNews", "updateNews", "deleteNews"}

\* History: what a read keeps of the call that returned in the step before it
\* started: of the same read with the same arguments, what it returned, the
\* timestamp of the entry of the key and the time of the start; of a write
\* that succeeded, whether it cleared an entry of the key.
Before(l, op, arg, c, cacheKey) ==
    IF l.op = op
    THEN IF l.arg = arg
         THEN [op |-> l.op, ret |-> l.ret, hit |-> l.hit, failed |-> l.failed,
               incremented |-> l.incremented, at |-> now,
               entry |-> IF cacheKey \in DOMAIN c THEN Some(c[cacheKey].timestamp)
                         ELSE None]
         ELSE NoCall
    ELSE IF l.op \in WriteOps
    THEN IF l.threw THEN NoCall ELSE [op |-> l.op, cleared |-> cacheKey \in l.cleared]
    ELSE NoCall

\* The slot of a call that starts, and the record of a call that returns.
\* ctx holds what the route handler keeps across the call (None when nothing).
Call(via, op, arg, pc) ==
    [via |-> via, op |-> op, arg |-> arg, pc |-> pc, res |-> None, old |-> "no",
     queries |-> 0, before |-> NoCall, found |-> FALSE, ctx |-> None]

\* The response of the route handler that made the call, when the call
\* returns ret or throws; None while the handler has not answered yet.
\*   GET /api/news/[id]: 404 when the service returns null, else the article.
\*   GET /api/news/slug/[slug]: 404 when getNewsBySlug returns null; after
\*     getNewsList, the article with the related news: the rows other than the
\*     article itself, three at most.
\*   GET /api/news: the rows with the pagination meta; the listing of the mock
\*     arrays (fallback) when getNewsList throws.
\*   GET /api/categories: the categories; the mock categories (fallback) when
\*     getCategories throws.
\*   POST /api/news: 201 with the id createNews returned; 201 with a made-up
\*     id (fabricated) when createNews throws.
RespondTo(rq, ret, threw) ==
    CASE rq.via = "GET /api/news/[id]" ->
            IF threw THEN Response(500, FALSE)
            ELSE IF ret = None THEN Response(404, FALSE)
            ELSE Some([status |-> 200, success |-> TRUE, data |-> Val(ret)])
      [] rq.via = "GET /api/news/slug/[slug]" ->
            IF threw THEN Response(500, FALSE)
            ELSE IF rq.op = "getNewsBySlug"
            THEN IF ret = None THEN Response(404, FALSE) ELSE None
            ELSE LET article == Val(rq.ctx)
                     NotItself(item) == item.id # article.id
                     filteredRelatedNews == SelectSeq(ret.news, NotItself)
                 IN  Some([status |-> 200, success |-> TRUE, data |-> article,
                           relatedNews |-> JsSlice(filteredRelatedNews, 0, 3)])
      [] rq.via = "GET /api/news" ->
            IF threw THEN Some([status |-> 200, success |-> TRUE, fallback |-> TRUE])
            ELSE Some([status |-> 200, success |-> TRUE, fallback |-> FALSE,
                       data |-> ret.news,
                       meta |-> [total |-> ret.total,
                                 page |-> FloorDiv(rq.arg.offset, rq.arg.limit) + 1,
                                 pageSize |-> rq.arg.limit,
                                 totalPages |-> CeilDiv(ret.total, rq.arg.limit)]])
      [] rq.via = "GET /api/categories" ->
            IF threw THEN Some([status |-> 200, success |-> TRUE, fallback |-> TRUE])
            ELSE Some([status |-> 200, success |-> TRUE, fallback |-> FALSE, data |-> ret])
      [] rq.via = "POST /api/news" ->
            IF threw THEN Some([status |-> 201, success |-> TRUE, fabricated |-> TRUE])
            ELSE Some([status |-> 201, success |-> TRUE, fabricated |-> FALSE,
                       data |-> [id |-> ret]])
      [] OTHER -> Respond(rq.via, ret, threw)

Returned(rq, ret, hit, failed, threw, stale) ==
    [via |-> rq.via, op |-> rq.op, arg |-> rq.arg, ret |-> ret, hit |-> hit,
     failed |-> failed, threw |-> threw, stale |-> (stale = "cleared"), queries |-> rq.queries,
     before |-> rq.before, found |-> rq.found, incremented |-> FALSE, cleared |-> {},
     resp |-> RespondTo(rq, ret, threw)]

\* A read without the try block: the error of the query reaches the caller.
CaughtNot(rq, noData) ==
    Returned([rq EXCEPT !.queries = @ + 1], noData, FALSE, "read", TRUE, "no")

\* catch (error) { console.error(...); return <no data>; } of a read whose
\* query failed.
Caught(rq, noData) ==
    Returned([rq EXCEPT !.queries = @ + 1], noData, FALSE, "read", FALSE, "no")

Init ==
    /\ news = EmptyTable
    /\ nextId = 1
    /\ cache = EmptyCache
    /\ now = 0
    /\ req = [r \in Reqs |-> Idle]
    /\ last = NoCall
    /\ old = [k \in {} |-> "no"]

Tick ==
    /\ now < MaxTicks * TickMs
    /\ now' = now + TickMs
    /\ last' = NoCall
    /\ UNCHANGED <<news, nextId, cache, req, old>>

(***************************************************************************)
(* getNewsBySlug(slug)                                                     *)
(***************************************************************************)
getNewsBySlugStart(r, via, slug) ==
    /\ req[r].op = "idle"
    /\ \A i \in DOMAIN news : news[i].slug = slug => news[i].view_count < MaxViews
    /\ LET cacheKey == SlugKey(slug)
           call == [Call(via, "getNewsBySlug", slug, "select")
                       EXCEPT !.before = Before(last, "getNewsBySlug", slug, cache, cacheKey)]
       IN  IF isCacheValid(cache, cacheKey, now)
           THEN /\ last' = Returned(call, cache[cacheKey].data, TRUE, "no", FALSE,
                                    old[cacheKey])
                /\ UNCHANGED req
           ELSE /\ req' = [req EXCEPT ![r] = call]
                /\ last' = NoCall
    /\ UNCHANGED <<news, nextId, cache, now, old>>

\* getNewsBySlug whose catch block stores null under the key of the slug.
getNewsBySlugSelectCaching(r) ==
    /\ req[r].op = "getNewsBySlug" /\ req[r].pc = "select"
    /\ \/ /\ \E result \in SelectBySlug(news, req[r].arg) :
               req' = [req EXCEPT ![r].pc = "selected",
                                  ![r].queries = @ + 1,
                                  ![r].old = "no",
                                  ![r].res = IF Len(result) > 0 THEN Some(result[1]) ELSE None]
          /\ last' = NoCall
          /\ UNCHANGED <<cache, old>>
       \/ /\ last' = Caught(req[r], None)
          /\ req' = [req EXCEPT ![r] = Idle]
          /\ cache' = CachePut(cache, SlugKey(req[r].arg), None, now)
          /\ old' = OldPut(old, SlugKey(req[r].arg), "no")
    /\ UNCHANGED <<news, nextId, now>>

\* The store executes the SELECT, or fails: the catch block returns null.
getNewsBySlugSelect(r) ==
    /\ req[r].op = "getNewsBySlug" /\ req[r].pc = "select"
    /\ \/ \E result \in SelectBySlug(news, req[r].arg) :
            /\ req' = [req EXCEPT ![r].pc = "selected",
                                  ![r].queries = @ + 1,
                                  ![r].old = "no",
                                  ![r].res = IF Len(result) > 0 THEN Some(result[1]) ELSE None]
            /\ last' = NoCall
       \/ /\ last' = Caught(req[r], None)
          /\ req' = [req EXCEPT ![r] = Idle]
    /\ UNCHANGED <<news, nextId, cache, now, old>>

\* The continuation: the cache entry is written, then the increment is issued.
getNewsBySlugCache(r) ==
    /\ req[r].op = "getNewsBySlug" /\ req[r].pc = "selected"
    /\ cache' = CachePut(cache, SlugKey(req[r].arg), req[r].res, now)
    /\ old' = OldPut(old, SlugKey(req[r].arg), req[r].old)
    /\ IF IsSome(req[r].res)
       THEN /\ req' = [req EXCEPT ![r].pc = "increment"]
            /\ last' = NoCall
       ELSE /\ last' = Returned(req[r], req[r].res, FALSE, "no", FALSE, req[r].old)
            /\ req' = [req EXCEPT ![r] = Idle]
    /\ UNCHANGED <<news, nextId, now>>

\* incrementViewCount(news.id): the store executes the UPDATE, or fails (the
\* error is logged and swallowed); getNewsBySlug returns the row it read.
incrementViewCount(r) ==
    /\ req[r].op = "getNewsBySlug" /\ req[r].pc = "increment"
    /\ \E ok \in BOOLEAN :
          /\ news' = IF ok THEN IncrementRows(news, Val(req[r].res).id) ELSE news
          /\ last' = [Returned([req[r] EXCEPT !.queries = @ + 1], req[r].res, FALSE,
                               IF ok THEN "no" ELSE "increment", FALSE, req[r].old)
                         EXCEPT !.incremented = (news' # news)]
    /\ req' = [req EXCEPT ![r] = Idle]
    /\ UNCHANGED <<nextId, cache, now, old>>


(***************************************************************************)
(* getNewsList(options)                                                    *)
(***************************************************************************)
\* const { limit = 10, offset = 0, categoryId, featured = false, searchQuery } = options
Destructure(options) ==
    [limit |-> IF IsSome(options.limit) THEN Val(options.limit) ELSE DefaultLimit,
     offset |-> IF IsSome(options.offset) THEN Val(options.offset) ELSE DefaultOffset,
     categoryId |-> options.categoryId,
     featured |-> IF IsSome(options.featured) THEN Val(options.featured) ELSE FALSE,
     searchQuery |-> options.searchQuery]

KeyOfList(o) == ListKey(o.limit, o.offset, o.categoryId, o.featured, o.searchQuery)
EmptyList == [news |-> <<>>, total |-> 0]

getNewsListCall(r, via, options, ctx) ==
    /\ req[r].op = "idle"
    /\ LET o == Destructure(options)
           cacheKey == KeyOfList(o)
           call == [Call(via, "getNewsList", o, "select")
                       EXCEPT !.before = Before(last, "getNewsList", o, cache, cacheKey),
                              !.ctx = ctx]
       IN  IF isCacheValid(cache, cacheKey, now)
           THEN /\ last' = Returned(call, cache[cacheKey].data, TRUE, "no", FALSE,
                                    old[cacheKey])
                /\ UNCHANGED req
           ELSE /\ req' = [req EXCEPT ![r] = call]
                /\ last' = NoCall
    /\ UNCHANGED <<news, nextId, cache, now, old>>

getNewsListStart(r, via, options) == getNewsListCall(r, via, options, None)

\* The store executes the SELECT of the rows, or fails: the catch block
\* returns { news: [], total: 0 }.
getNewsListSelect(r) ==
    /\ req[r].op = "getNewsList" /\ req[r].pc = "select"
    /\ LET o == req[r].arg
       IN  \/ /\ ~ListQueryRejected(o.limit, o.offset)
              /\ \E rows \in SelectList(news, o.limit, o.offset, o.categoryId,
                                        o.featured, o.searchQuery) :
                    req' = [req EXCEPT ![r].pc = "count", ![r].queries = @ + 1,
                                       ![r].old = "no", ![r].res = Some(rows)]
              /\ last' = NoCall
           \/ /\ last' = Caught(req[r], EmptyList)
              /\ req' = [req EXCEPT ![r] = Idle]
    /\ UNCHANGED <<news, nextId, cache, now, old>>

\* The store executes the SELECT COUNT(*), or fails.
getNewsListCount(r) ==
    /\ req[r].op = "getNewsList" /\ req[r].pc = "count"
    /\ LET o == req[r].arg
           total == SelectCount(news, o.categoryId, o.featured, o.searchQuery)
       IN  \/ /\ req' = [req EXCEPT ![r].pc = "counted", ![r].queries = @ + 1,
                            ![r].res = Some([news |-> Val(req[r].res), total |-> total])]
              /\ last' = NoCall
           \/ /\ last' = Caught(req[r], EmptyList)
              /\ req' = [req EXCEPT ![r] = Idle]
    /\ UNCHANGED <<news, nextId, cache, now, old>>

\* The continuation: the cache entry is written and the result returned.
getNewsListCache(r) ==
    /\ req[r].op = "getNewsList" /\ req[r].pc = "counted"
    /\ cache' = CachePut(cache, KeyOfList(req[r].arg), Val(req[r].res), now)
    /\ old' = OldPut(old, KeyOfList(req[r].arg), req[r].old)
    /\ last' = Returned(req[r], Val(req[r].res), FALSE, "no", FALSE, req[r].old)
    /\ req' = [req EXCEPT ![r] = Idle]
    /\ UNCHANGED <<news, nextId, now>>

(***************************************************************************)
(* getCategories()                                                         *)
(***************************************************************************)
getCategoriesStart(r, via) ==
    /\ req[r].op = "idle"
    /\ LET call == [Call(via, "getCategories", None, "select")
                       EXCEPT !.before = Before(last, "getCategories", None, cache,
                                                CategoriesKey)]
       IN  IF isCacheValid(cache, CategoriesKey, now)
           THEN /\ last' = Returned(call, cache[CategoriesKey].data, TRUE, "no", FALSE,
                                    old[CategoriesKey])
                /\ UNCHANGED req
           ELSE /\ req' = [req EXCEPT ![r] = call]
                /\ last' = NoCall
    /\ UNCHANGED <<news, nextId, cache, now, old>>

\* The store executes the query, or fails: the catch block returns [].
getCategoriesSelect(r) ==
    /\ req[r].op = "getCategories" /\ req[r].pc = "select"
    /\ \/ /\ req' = [req EXCEPT ![r].pc = "selected", ![r].queries = @ + 1,
                                ![r].old = "no", ![r].res = Some(SelectCategories(news))]
          /\ last' = NoCall
       \/ /\ last' = Caught(req[r], <<>>)
          /\ req' = [req EXCEPT ![r] = Idle]
    /\ UNCHANGED <<news, nextId, cache, now, old>>

getCategoriesCache(r) ==
    /\ req[r].op = "getCategories" /\ req[r].pc = "selected"
    /\ cache' = CachePut(cache, CategoriesKey, Val(req[r].res), now)
    /\ old' = OldPut(old, CategoriesKey, req[r].old)
    /\ last' = Returned(req[r], Val(req[r].res), FALSE, "no", FALSE, req[r].old)
    /\ req' = [req EXCEPT ![r] = Idle]
    /\ UNCHANGED <<news, nextId, now>>


(***************************************************************************)
(* createNews, updateNews, deleteNews                                      *)
(***************************************************************************)
\* A catch block of a write that logs the error and returns false.
ThrewNot(rq) == Returned([rq EXCEPT !.queries = @ + 1], FALSE, FALSE, "write", FALSE, "no")

\* catch (error) { console.error(...); throw error; }
Threw(rq) == Returned([rq EXCEPT !.queries = @ + 1], FALSE, FALSE, "write", TRUE, "no")

createNewsStart(r, via, newsData) ==
    /\ req[r].op = "idle"
    /\ nextId <= MaxNews
    /\ req' = [req EXCEPT ![r] = Call(via, "createNews", newsData, "insert")]
    /\ last' = NoCall
    /\ UNCHANGED <<news, nextId, cache, now, old>>

\* The store executes the INSERT, or rejects it or fails: the catch block
\* logs the error and throws it again.
createNewsInsert(r) ==
    /\ req[r].op = "createNews" /\ req[r].pc = "insert"
    /\ \/ /\ ~InsertRejected(news, req[r].arg)
          /\ news' = InsertNews(news, nextId, req[r].arg, now)
          /\ nextId' = nextId + 1
          /\ req' = [MarkOld(req, TRUE) EXCEPT ![r].pc = "inserted", ![r].queries = @ + 1,
                                               ![r].res = Some(nextId)]
          /\ old' = [k \in DOMAIN old |-> Written(old[k], TRUE)]
          /\ last' = NoCall
       \/ /\ last' = Threw(req[r])
          /\ req' = [req EXCEPT ![r] = Idle]
          /\ UNCHANGED <<news, nextId, old>>
    /\ UNCHANGED <<cache, now>>

\* The continuation: this.clearCache(); return result.insertId
createNewsDone(r) ==
    /\ req[r].op = "createNews" /\ req[r].pc = "inserted"
    /\ cache' = clearCache(cache)
    /\ old' = [k \in DOMAIN cache' |-> Cleared(old[k])]
    /\ last' = [Returned(req[r], Val(req[r].res), FALSE, "no", FALSE, "no")
                   EXCEPT !.cleared = DOMAIN cache \ DOMAIN cache']
    /\ req' = [MarkCleared(req) EXCEPT ![r] = Idle]
    /\ UNCHANGED <<news, nextId, now>>

updateNewsStart(r, via, id, newsData) ==
    /\ req[r].op = "idle"
    /\ req' = [req EXCEPT ![r] = Call(via, "updateNews", [id |-> id, data |-> newsData],
                                      "update")]
    /\ last' = NoCall
    /\ UNCHANGED <<news, nextId, cache, now, old>>

\* The store executes the UPDATE, or rejects it or fails.
updateNewsUpdate(r) ==
    /\ req[r].op = "updateNews" /\ req[r].pc = "update"
    /\ LET id == req[r].arg.id
           d == req[r].arg.data
       IN  \/ /\ ~UpdateRejected(news, id, d)
              /\ news' = UpdateNewsRows(news, id, d, now)
              /\ req' = [MarkOld(req, id \in DOMAIN news) EXCEPT
                             ![r].pc = "updated", ![r].queries = @ + 1,
                             ![r].found = id \in DOMAIN news,
                             ![r].res = Some(AffectedRows(news, id))]
              /\ old' = [k \in DOMAIN old |-> Written(old[k], id \in DOMAIN news)]
              /\ last' = NoCall
           \/ /\ last' = Threw(req[r])
              /\ req' = [req EXCEPT ![r] = Idle]
              /\ UNCHANGED <<news, old>>
    /\ UNCHANGED <<nextId, cache, now>>

\* The continuation: this.clearCache(); return result.affectedRows > 0
updateNewsDone(r) ==
    /\ req[r].op = "updateNews" /\ req[r].pc = "updated"
    /\ cache' = clearCache(cache)
    /\ old' = [k \in DOMAIN cache' |-> Cleared(old[k])]
    /\ last' = [Returned(req[r], Val(req[r].res) > 0, FALSE, "no", FALSE, "no")
                   EXCEPT !.cleared = DOMAIN cache \ DOMAIN cache']
    /\ req' = [MarkCleared(req) EXCEPT ![r] = Idle]
    /\ UNCHANGED <<news, nextId, now>>

deleteNewsStart(r, via, id) ==
    /\ req[r].op = "idle"
    /\ req' = [req EXCEPT ![r] = Call(via, "deleteNews", [id |-> id], "delete")]
    /\ last' = NoCall
    /\ UNCHANGED <<news, nextId, cache, now, old>>

\* The store executes the DELETE, or fails.
deleteNewsDelete(r) ==
    /\ req[r].op = "deleteNews" /\ req[r].pc = "delete"
    /\ LET id == req[r].arg.id
       IN  \/ /\ news' = DeleteNewsRows(news, id)
              /\ req' = [MarkOld(req, id \in DOMAIN news) EXCEPT
                             ![r].pc = "deleted", ![r].queries = @ + 1,
                             ![r].found = id \in DOMAIN news,
                             ![r].res = Some(AffectedRows(news, id))]
              /\ old' = [k \in DOMAIN old |-> Written(old[k], id \in DOMAIN news)]
              /\ last' = NoCall
           \/ /\ last' = Threw(req[r])
              /\ req' = [req EXCEPT ![r] = Idle]
              /\ UNCHANGED <<news, old>>
    /\ UNCHANGED <<nextId, cache, now>>

\* The continuation: this.clearCache(); return result.affectedRows > 0
deleteNewsDone(r) ==
    /\ req[r].op = "deleteNews" /\ req[r].pc = "deleted"
    /\ cache' = clearCache(cache)
    /\ old' = [k \in DOMAIN cache' |-> Cleared(old[k])]
    /\ last' = [Returned(req[r], Val(req[r].res) > 0, FALSE, "no", FALSE, "no")
                   EXCEPT !.cleared = DOMAIN cache \ DOMAIN cache']
    /\ req' = [MarkCleared(req) EXCEPT ![r] = Idle]
    /\ UNCHANGED <<news, nextId, now>>


(***************************************************************************)
(* The route handler of /api/news/[id]: PUT and DELETE.                    *)
(* A request carries the id of the route (a text), the session (the user,  *)
(* when there is one) and, for PUT, the body.                              *)
(***************************************************************************)
Digits == <<"0", "1", "2", "3", "4", "5", "6", "7", "8", "9">>
IsDigit(c) == \E i \in 1..Len(Digits) : Digits[i] = c
DigitValue(c) == (CHOOSE i \in 1..Len(Digits) : Digits[i] = c) - 1

\* /^\d+$/.test(id)
IsNumericId(id) == id # <<>> /\ \A i \in 1..Len(id) : IsDigit(id[i])

\* parseInt of a text: an optional sign and the longest run of digits after
\* it; None stands for NaN.
RECURSIVE DigitsPrefix(_, _)
DigitsPrefix(text, acc) ==
    IF text # <<>> /\ IsDigit(Head(text))
    THEN DigitsPrefix(Tail(text), acc * 10 + DigitValue(Head(text)))
    ELSE acc
parseInt(text) ==
    LET neg == text # <<>> /\ Head(text) = "-"
        rest == IF text # <<>> /\ Head(text) \in {"-", "+"} THEN Tail(text) ELSE text
    IN  IF rest = <<>> \/ ~IsDigit(Head(rest)) THEN None
        ELSE Some(IF neg THEN 0 - DigitsPrefix(rest, 0) ELSE DigitsPrefix(rest, 0))

\* A field of the body that JavaScript takes for false: absent, or "".
Falsy(field) == ~IsSome(field) \/ Val(field) = <<>>
FalsyNumber(field) == ~IsSome(field) \/ Val(field) = 0

\* The NewsData the PUT handler passes to updateNews.
NewsDataOfBody(body, user) ==
    [title |-> Val(body.title), slug |-> Join(Val(body.slug)), content |-> Val(body.content),
     excerpt |-> IF Falsy(body.excerpt) THEN <<>> ELSE Val(body.excerpt),
     imageUrl |-> IF Falsy(body.imageUrl) THEN <<>> ELSE Val(body.imageUrl),
     categoryId |-> Val(body.categoryId),
     authorId |-> user.id,
     status |-> IF Falsy(body.status) THEN "draft" ELSE Join(Val(body.status)),
     isFeatured |-> IF IsSome(body.isFeatured) THEN Val(body.isFeatured) ELSE FALSE]

\* A response the handler gives without calling the service.
Answered(via, status) ==
    [via |-> via, op |-> "none", resp |-> Response(status, FALSE)]

PutNewsId(r, id, session, body) ==
    /\ req[r].op = "idle"
    /\ IF id = <<>> THEN
           /\ last' = Answered("PUT", 400)
           /\ UNCHANGED <<news, nextId, cache, now, req, old>>
       ELSE IF ~IsSome(session) \/ ~IsSome(Val(session).user) THEN
           /\ last' = Answered("PUT", 401)
           /\ UNCHANGED <<news, nextId, cache, now, req, old>>
       ELSE IF ~IsNumericId(id) THEN
           /\ last' = Answered("PUT", 400)
           /\ UNCHANGED <<news, nextId, cache, now, req, old>>
       ELSE IF Falsy(body.title) \/ Falsy(body.slug) \/ Falsy(body.content)
                  \/ FalsyNumber(body.categoryId) THEN
           /\ last' = Answered("PUT", 400)
           /\ UNCHANGED <<news, nextId, cache, now, req, old>>
       ELSE updateNewsStart(r, "PUT", Val(parseInt(id)),
                            NewsDataOfBody(body, Val(Val(session).user)))

\* A DELETE handler that asks for a session user of any role.
DeleteNewsIdAnyRole(r, id, session) ==
    /\ req[r].op = "idle"
    /\ IF id = <<>> THEN
           /\ last' = Answered("DELETE", 400)
           /\ UNCHANGED <<news, nextId, cache, now, req, old>>
       ELSE IF ~IsSome(session) \/ ~IsSome(Val(session).user) THEN
           /\ last' = Answered("DELETE", 401)
           /\ UNCHANGED <<news, nextId, cache, now, req, old>>
       ELSE IF ~IsNumericId(id) THEN
           /\ last' = Answered("DELETE", 400)
           /\ UNCHANGED <<news, nextId, cache, now, req, old>>
       ELSE deleteNewsStart(r, "DELETE", Val(parseInt(id)))

DeleteNewsId(r, id, session) ==
    /\ req[r].op = "idle"
    /\ IF id = <<>> THEN
           /\ last' = Answered("DELETE", 400)
           /\ UNCHANGED <<news, nextId, cache, now, req, old>>
       ELSE IF \/ ~IsSome(session)
               \/ ~IsSome(Val(session).user)
               \/ Val(Val(session).user).role # "admin" THEN
           /\ last' = Answered("DELETE", 401)
           /\ UNCHANGED <<news, nextId, cache, now, req, old>>
       ELSE IF ~IsNumericId(id) THEN
           /\ last' = Answered("DELETE", 400)
           /\ UNCHANGED <<news, nextId, cache, now, req, old>>
       ELSE deleteNewsStart(r, "DELETE", Val(parseInt(id)))

\* case 'GET' of /api/news/[id]: a numeric id is answered 404 (not
\* implemented), any other id is looked up as a slug.
GetNewsId(r, id) ==
    /\ req[r].op = "idle"
    /\ IF id = <<>> THEN
           /\ last' = Answered("GET /api/news/[id]", 400)
           /\ UNCHANGED <<news, nextId, cache, now, req, old>>
       ELSE IF IsNumericId(id) THEN
           /\ last' = Answered("GET /api/news/[id]", 404)
           /\ UNCHANGED <<news, nextId, cache, now, req, old>>
       ELSE getNewsBySlugStart(r, "GET /api/news/[id]", Join(id))

\* The handler of /api/news/[id].  getSession is awaited before the switch on
\* the method: when it throws, the catch block answers 500.
NewsId(r, method, id, got, body) ==
    /\ req[r].op = "idle"
    /\ IF id # <<>> /\ got.threw THEN
           /\ last' = Answered(method \o " /api/news/[id]", 500)
           /\ UNCHANGED <<news, nextId, cache, now, req, old>>
       ELSE CASE method = "GET" -> GetNewsId(r, id)
              [] method = "PUT" -> PutNewsId(r, id, got.session, body)
              [] method = "DELETE" -> DeleteNewsId(r, id, got.session)
              [] OTHER ->
                    /\ last' = Answered(method \o " /api/news/[id]",
                                        IF id = <<>> THEN 400 ELSE 405)
                    /\ UNCHANGED <<news, nextId, cache, now, req, old>>


(***************************************************************************)
(* The route handler of /api/news/slug/[slug]: the article and its related *)
(* news.                                                                   *)
(***************************************************************************)
NewsSlug(r, method, slug) ==
    /\ req[r].op = "idle"
    /\ IF method # "GET" THEN
           /\ last' = Answered(method \o " /api/news/slug/[slug]", 405)
           /\ UNCHANGED <<news, nextId, cache, now, req, old>>
       ELSE IF slug = <<>> THEN
           /\ last' = Answered("GET /api/news/slug/[slug]", 400)
           /\ UNCHANGED <<news, nextId, cache, now, req, old>>
       ELSE getNewsBySlugStart(r, "GET /api/news/slug/[slug]", Join(slug))

\* getNewsBySlug has returned an article to the handler, which has not
\* answered yet.
NewsSlugPending ==
    /\ last.via = "GET /api/news/slug/[slug]"
    /\ last.op = "getNewsBySlug"
    /\ last.resp = None

\* The handler goes on: getNewsList({ limit: 4, categoryId: news.category_id }).
NewsSlugRelated(r) ==
    /\ NewsSlugPending
    /\ LET article == Val(last.ret)
       IN  getNewsListCall(r, "GET /api/news/slug/[slug]",
                           [limit |-> Some(4), offset |-> None,
                            categoryId |-> Some(article.category_id),
                            featured |-> None, searchQuery |-> None],
                           Some(article))


(***************************************************************************)
(* The route handler of /api/categories.                                   *)
(***************************************************************************)
FormatMockCategory(cat) ==
    [id |-> cat.id, name |-> cat.name, slug |-> cat.slug,
     description |-> IF Falsy(cat.description) THEN <<>> ELSE Val(cat.description),
     news_count |-> IF FalsyNumber(cat.count) THEN 0 ELSE Val(cat.count)]

\* A handler of /api/categories that serves every method.
CategoriesAnyMethod(r, method, mockMode, mockCategories) ==
    /\ req[r].op = "idle"
    /\ IF mockMode THEN
           /\ last' = [via |-> method \o " /api/categories", op |-> "none",
                       resp |-> Some([status |-> 200, success |-> TRUE, fallback |-> FALSE,
                                      data |-> [i \in 1..Len(mockCategories) |->
                                                  FormatMockCategory(mockCategories[i])]])]
           /\ UNCHANGED <<news, nextId, cache, now, req, old>>
       ELSE getCategoriesStart(r, method \o " /api/categories")

Categories(r, method, mockMode, mockCategories) ==
    /\ req[r].op = "idle"
    /\ IF method # "GET" THEN
           /\ last' = Answered(method \o " /api/categories", 405)
           /\ UNCHANGED <<news, nextId, cache, now, req, old>>
       ELSE IF mockMode THEN
           /\ last' = [via |-> "GET /api/categories", op |-> "none",
                       resp |-> Some([status |-> 200, success |-> TRUE, fallback |-> FALSE,
                                      data |-> [i \in 1..Len(mockCategories) |->
                                                  FormatMockCategory(mockCategories[i])]])]
           /\ UNCHANGED <<news, nextId, cache, now, req, old>>
       ELSE getCategoriesStart(r, "GET /api/categories")


(***************************************************************************)
(* The route handler of /api/news: GET in mock mode.                       *)
(***************************************************************************)
\* export const MOCK_MODE = process.env.NEXT_PUBLIC_MOCK_MODE === 'true' || true
MOCK_MODE(envValue) == (envValue = Some("true")) \/ TRUE

\* An item of the arrays the handler imports from the mock data provider.
MockItem(id, title, category) ==
    [id |-> id, title |-> title, slug |-> "m" \o ToString(id), excerpt |-> Wave,
     content |-> None, imageUrl |-> "img", category |-> category,
     date |-> "2024-01-0" \o ToString(id), author |-> "Ana", viewCount |-> None]

\* The names the handler filters the mock items by.
MockCategoryNames ==
    << "Política", "Economia", "Tecnologia", "Esportes", "Saúde", "Ciência" >>

toLowerCase(text) == [i \in 1..Len(text) |-> Lower(text[i])]
\* String.prototype.includes
includes(text, q) ==
    \E i \in 0..(Len(text) - Len(q)) : SubSeq(text, i + 1, i + Len(q)) = q

\* The query parameters as the handler reads them.
QueryOf(query) ==
    LET lim == IF IsSome(query.limit) THEN parseInt(Val(query.limit)) ELSE None
        off == IF IsSome(query.offset) THEN parseInt(Val(query.offset)) ELSE None
    IN  [limit |-> IF IsSome(lim) /\ Val(lim) # 0 THEN Val(lim) ELSE 10,
         offset |-> IF IsSome(off) /\ Val(off) # 0 THEN Val(off) ELSE 0,
         categoryId |-> IF Falsy(query.categoryId) THEN None
                        ELSE Some(parseInt(Val(query.categoryId))),
         featured |-> query.featured = Some(<<"t", "r", "u", "e">>),
         searchQuery |-> query.search,
         exclude |-> IF Falsy(query.exclude) THEN None
                     ELSE Some(parseInt(Val(query.exclude)))]

\* The mock listing: the items selected and filtered, before the pagination.
MockFiltered(q, latestNews, featuredNews) ==
    LET all == IF q.featured THEN featuredNews ELSE latestNews
        InCategory(item) ==
            /\ IsSome(Val(q.categoryId))
            /\ Val(Val(q.categoryId)) \in 1..Len(MockCategoryNames)
            /\ item.category = MockCategoryNames[Val(Val(q.categoryId))]
        byCategory == IF IsSome(q.categoryId) THEN SelectSeq(all, InCategory) ELSE all
        Found(item) ==
            LET query == toLowerCase(Val(q.searchQuery))
            IN  \/ includes(toLowerCase(item.title), query)
                \/ includes(toLowerCase(item.excerpt), query)
                \/ (IsSome(item.content) /\ Val(item.content) # <<>>
                      /\ includes(toLowerCase(Val(item.content)), query))
        bySearch == IF ~Falsy(q.searchQuery) THEN SelectSeq(byCategory, Found)
                    ELSE byCategory
        NotExcluded(item) == ~(IsSome(Val(q.exclude)) /\ item.id = Val(Val(q.exclude)))
    IN  IF IsSome(q.exclude) THEN SelectSeq(bySearch, NotExcluded) ELSE bySearch

FormatMock(item) ==
    [id |-> item.id, title |-> item.title, slug |-> item.slug, excerpt |-> item.excerpt,
     content |-> IF IsSome(item.content) THEN Val(item.content) ELSE <<>>,
     image_url |-> item.imageUrl, category_id |-> 1, category_name |-> item.category,
     view_count |-> IF IsSome(item.viewCount) THEN Val(item.viewCount) ELSE 0,
     created_at |-> item.date, author_name |-> item.author]

\* The response of GET /api/news in mock mode.
MockListing(q, latestNews, featuredNews) ==
    LET mockNews == MockFiltered(q, latestNews, featuredNews)
        totalItems == Len(mockNews)
        paginatedNews == JsSlice(mockNews, q.offset, q.offset + q.limit)
    IN  [via |-> "GET /api/news", op |-> "none", caught |-> FALSE, query |-> q,
         resp |-> Response(200, TRUE),
         data |-> [i \in 1..Len(paginatedNews) |-> FormatMock(paginatedNews[i])],
         meta |-> [total |-> totalItems,
                   page |-> FloorDiv(q.offset, q.limit) + 1,
                   pageSize |-> q.limit,
                   totalPages |-> CeilDiv(totalItems, q.limit)]]

\* case 'GET' of /api/news.  A categoryId that parseInt turns into NaN is not
\* drawn for the path of the store.
GetNewsWith(r, mockMode, query, latestNews, featuredNews) ==
    /\ req[r].op = "idle"
    /\ LET q == QueryOf(query)
       IN  IF mockMode
           THEN /\ last' = MockListing(q, latestNews, featuredNews)
                /\ UNCHANGED <<news, nextId, cache, now, req, old>>
           ELSE /\ IsSome(q.categoryId) => IsSome(Val(q.categoryId))
                /\ getNewsListStart(r, "GET /api/news",
                                    [limit |-> Some(q.limit), offset |-> Some(q.offset),
                                     categoryId |-> IF IsSome(q.categoryId)
                                                    THEN Val(q.categoryId) ELSE None,
                                     featured |-> Some(q.featured),
                                     searchQuery |-> q.searchQuery])

GetNews(r, envValue, query, latestNews, featuredNews) ==
    GetNewsWith(r, MOCK_MODE(envValue), query, latestNews, featuredNews)

\* case 'POST' of /api/news.  In mock mode the id of the answer is made up
\* (Math.random) and nothing is created.
\* A POST handler that does not look at the required fields in mock mode.
PostNewsUnvalidated(r, mockMode, session, body) ==
    /\ req[r].op = "idle"
    /\ IF ~IsSome(session) \/ ~IsSome(Val(session).user) THEN
           /\ last' = Answered("POST /api/news", 401)
           /\ UNCHANGED <<news, nextId, cache, now, req, old>>
       ELSE IF mockMode THEN
           /\ last' = [via |-> "POST /api/news", op |-> "none",
                       resp |-> Some([status |-> 201, success |-> TRUE,
                                      fabricated |-> TRUE])]
           /\ UNCHANGED <<news, nextId, cache, now, req, old>>
       ELSE IF Falsy(body.title) \/ Falsy(body.slug) \/ Falsy(body.content)
                  \/ FalsyNumber(body.categoryId) THEN
           /\ last' = Answered("POST /api/news", 400)
           /\ UNCHANGED <<news, nextId, cache, now, req, old>>
       ELSE createNewsStart(r, "POST /api/news",
                            NewsDataOfBody(body, Val(Val(session).user)))

PostNews(r, mockMode, session, body) ==
    /\ req[r].op = "idle"
    /\ IF ~IsSome(session) \/ ~IsSome(Val(session).user) THEN
           /\ last' = Answered("POST /api/news", 401)
           /\ UNCHANGED <<news, nextId, cache, now, req, old>>
       ELSE IF Falsy(body.title) \/ Falsy(body.slug) \/ Falsy(body.content)
                  \/ FalsyNumber(body.categoryId) THEN
           /\ last' = Answered("POST /api/news", 400)
           /\ UNCHANGED <<news, nextId, cache, now, req, old>>
       ELSE IF mockMode THEN
           /\ last' = [via |-> "POST /api/news", op |-> "none",
                       resp |-> Some([status |-> 201, success |-> TRUE,
                                      fabricated |-> TRUE])]
           /\ UNCHANGED <<news, nextId, cache, now, req, old>>
       ELSE createNewsStart(r, "POST /api/news",
                            NewsDataOfBody(body, Val(Val(session).user)))

\* The catch block of the handler: in mock mode a GET is answered the first
\* five items of latestNews and a POST a made-up id; otherwise 500.
\* A catch block without the mock contingency.
NewsCatchFails(method, mockMode, q, latestNews) ==
    [via |-> method \o " /api/news", op |-> "none", resp |-> Response(500, FALSE)]

NewsCatch(method, mockMode, q, latestNews) ==
    IF mockMode /\ method = "GET" THEN
        LET mockData == JsSlice(latestNews, 0, 5)
        IN  [via |-> "GET /api/news", op |-> "none", caught |-> TRUE, query |-> q,
             resp |-> Response(200, TRUE),
             data |-> [i \in 1..Len(mockData) |-> FormatMock(mockData[i])],
             meta |-> [total |-> Len(mockData), page |-> 1,
                       pageSize |-> Len(mockData), totalPages |-> 1]]
    ELSE IF mockMode /\ method = "POST" THEN
        [via |-> "POST /api/news", op |-> "none", caught |-> TRUE,
         resp |-> Some([status |-> 201, success |-> TRUE, fabricated |-> TRUE])]
    ELSE Answered(method \o " /api/news", 500)

\* The handler of /api/news.  getSession is awaited first: when it throws,
\* the catch block answers.
News(r, method, mockMode, got, query, body, latestNews, featuredNews) ==
    /\ req[r].op = "idle"
    /\ IF got.threw THEN
           /\ last' = NewsCatch(method, mockMode, QueryOf(query), latestNews)
           /\ UNCHANGED <<news, nextId, cache, now, req, old>>
       ELSE CASE method = "GET" -> GetNewsWith(r, mockMode, query, latestNews, featuredNews)
              [] method = "POST" -> PostNews(r, mockMode, got.session, body)
              [] OTHER ->
                    /\ last' = Answered(method \o " /api/news", 405)
                    /\ UNCHANGED <<news, nextId, cache, now, req, old>>


(***************************************************************************)
(* The requests of the model.                                              *)
(***************************************************************************)
Published == <<"p", "u", "b", "l", "i", "s", "h", "e", "d">>
Draft == <<"d", "r", "a", "f", "t">>

NewsData(title, slug, categoryId, status, isFeatured) ==
    [title |-> title, slug |-> slug, content |-> Wave, excerpt |-> <<>>,
     imageUrl |-> <<>>, categoryId |-> categoryId, authorId |-> 1,
     status |-> status, isFeatured |-> isFeatured]

Slugs == {"a"}
NewsInputs ==
    { NewsData(Surf, "a", 1, "published", TRUE),
      NewsData(Reef, "a", 2, "draft", FALSE) }

Options(limit, offset, categoryId, featured, searchQuery) ==
    [limit |-> limit, offset |-> offset, categoryId |-> categoryId,
     featured |-> featured, searchQuery |-> searchQuery]
ListInputs == { Options(None, None, None, None, None) }

Body(title, slug, categoryId, status) ==
    [title |-> title, slug |-> slug, content |-> Some(Wave), excerpt |-> None,
     imageUrl |-> None, categoryId |-> categoryId, status |-> status,
     isFeatured |-> None]
BodyWithout(field) ==
    [Body(Some(Reef), Some(<<"a">>), Some(2), Some(Published)) EXCEPT ![field] = None]
Bodies ==
    { Body(Some(Reef), Some(<<"a">>), Some(2), Some(Published)),
      Body(Some(Reef), Some(<<"a">>), None, None) }
        \cup { BodyWithout(field) : field \in {"title", "slug", "content", "categoryId"} }
\* The body of a request that sends none.
EmptyBody == [field \in DOMAIN BodyWithout("title") |-> None]
RouteIds == { <<"1">>, <<"a">> }
Methods == { "GET", "POST", "PUT", "DELETE", "PATCH" }
Sessions ==
    { None, Some([user |-> None]) }
        \cup { Some([user |-> Some([id |-> u.id, role |-> u.role])]) : u \in UserTable }
\* What getSession gives: a session, null, or an exception.
Got == [threw : {FALSE}, session : Sessions] \cup { [threw |-> TRUE, session |-> None] }
Ids == 1..MaxNews

Query(limit, offset, categoryId, featured, search) ==
    [limit |-> limit, offset |-> offset, categoryId |-> categoryId,
     featured |-> featured, search |-> search, exclude |-> None]
QueryTexts ==
    { None, Some(<<"1">>), Some(<<"2">>), Some(<<"0">>), Some(<<"-", "1">>), Some(<<"x">>) }
Queries ==
    { Query(l, o, c, f, q) :
        l \in QueryTexts, o \in QueryTexts, c \in { None, Some(<<"4">>), Some(<<"9">>) },
        f \in { None, Some(<<"t", "r", "u", "e">>) }, q \in { None, Some(<<"s", "u">>) } }
EnvValues == { None, Some("true"), Some("false") }

\* The arrays data/mockData may export: latestNews the first items of a list
\* of six, featuredNews the first half of latestNews.
MockNews == << MockItem(1, Surf, "Esportes"), MockItem(2, Reef, "Ciência"),
              MockItem(3, Wave, "Esportes"), MockItem(4, Surf, "Economia"),
              MockItem(5, Reef, "Esportes"), MockItem(6, Wave, "Ciência") >>
MockExports ==
    { [latestNews |-> SubSeq(MockNews, 1, k), featuredNews |-> SubSeq(MockNews, 1, k \div 2)] :
        k \in {0, 2, Len(MockNews)} }

\* The categories data/mockData may export.
MockCategory(id, name, count) ==
    [id |-> id, name |-> name, slug |-> name, description |-> None, count |-> count]
MockCategoryExports ==
    { <<>>, << MockCategory(1, "Esportes", Some(2)), MockCategory(2, "Ciência", None) >> }

\* The query of a GET /api/news without parameters, and the queries drawn
\* where the answer does not depend on them.
DefaultQuery == Query(None, None, None, None, None)
\* The mock data provider holds articles: its latestNews is not empty.
StockedExports == { mockData \in MockExports : mockData.latestNews # <<>> }
FewQueries == { DefaultQuery, Query(Some(<<"2">>), Some(<<"2">>), None, None, None) }

\* The calls of the service a request may start, given the arguments to draw.
ReadStarts(r, slugs, lists) ==
    \/ \E slug \in slugs : getNewsBySlugStart(r, "service", slug)
    \/ \E options \in lists : getNewsListStart(r, "service", options)
    \/ getCategoriesStart(r, "service")
WriteStarts(r, inputs, ids) ==
    \/ \E d \in inputs : createNewsStart(r, "service", d)
    \/ \E id \in ids, d \in inputs : updateNewsStart(r, "service", id, d)
    \/ \E id \in ids : deleteNewsStart(r, "service", id)
ServiceStarts(r, slugs, lists, inputs, ids) ==
    ReadStarts(r, slugs, lists) \/ WriteStarts(r, inputs, ids)

\* The requests to the routes; the mock mode is what the environment makes it.
RouteStarts(r) ==
    \/ \E method \in Methods \ {"PUT"}, id \in RouteIds, got \in Got :
          NewsId(r, method, id, got, EmptyBody)
    \/ \E id \in RouteIds, got \in Got, body \in Bodies : NewsId(r, "PUT", id, got, body)
    \/ \E method \in Methods, slug \in RouteIds : NewsSlug(r, method, slug)
    \/ \E envValue \in EnvValues, got \in Got, mockData \in MockExports :
          News(r, "GET", MOCK_MODE(envValue), got, DefaultQuery, EmptyBody,
               mockData.latestNews, mockData.featuredNews)
    \/ \E envValue \in EnvValues, got \in Got, body \in Bodies :
          News(r, "POST", MOCK_MODE(envValue), got, DefaultQuery, body, <<>>, <<>>)
    \/ \E method \in Methods \ {"GET", "POST"}, envValue \in EnvValues, got \in Got :
          News(r, method, MOCK_MODE(envValue), got, DefaultQuery, EmptyBody, <<>>, <<>>)
    \/ \E method \in Methods, envValue \in EnvValues, mockCategories \in MockCategoryExports :
          Categories(r, method, MOCK_MODE(envValue), mockCategories)

Steps(r) ==
    \/ getNewsBySlugSelect(r) \/ getNewsBySlugCache(r) \/ incrementViewCount(r)
    \/ getNewsListSelect(r) \/ getNewsListCount(r) \/ getNewsListCache(r)
    \/ getCategoriesSelect(r) \/ getCategoriesCache(r)
    \/ createNewsInsert(r) \/ createNewsDone(r)
    \/ updateNewsUpdate(r) \/ updateNewsDone(r)
    \/ deleteNewsDelete(r) \/ deleteNewsDone(r)

\* Requests run one after another, and the clock advances.
AllIdle == \A r \in Reqs : req[r].op = "idle"
Next ==
    \/ Tick
    \/ AllIdle /\ ServiceStarts(1, Slugs, ListInputs, NewsInputs, Ids)
    \/ Steps(1)
Spec == Init /\ [][Next]_vars

\* The requests to the routes, one after another, among calls of createNews
\* and getCategories; the clock stands still.
Ready == AllIdle /\ ~NewsSlugPending
RouteNext ==
    \/ Ready /\ RouteStarts(1)
    \/ NewsSlugRelated(1)
    \/ Ready /\ \E d \in NewsInputs : createNewsStart(1, "service", d)
    \/ Ready /\ getCategoriesStart(1, "service")
    \/ createNewsInsert(1) \/ createNewsDone(1)
    \/ getCategoriesSelect(1) \/ getCategoriesCache(1)
    \/ updateNewsUpdate(1) \/ updateNewsDone(1)
    \/ deleteNewsDelete(1) \/ deleteNewsDone(1)
    \/ getNewsBySlugSelect(1) \/ getNewsBySlugCache(1) \/ incrementViewCount(1)
    \/ getNewsListSelect(1) \/ getNewsListCount(1) \/ getNewsListCache(1)
RouteSpec == Init /\ [][RouteNext]_vars

\* The route /api/news/slug/[slug] over a table news that earlier requests
\* have filled: rows 1..n, created one after another (created_at does not
\* decrease with the id), all of one category and published, or of
\* alternating categories with a draft among them, at distinct times or two
\* at a time.
RowSlugs == << "a", "b", "c", "d", "e", "f", "g" >>
StoredRow(i, n, mixed, paired) ==
    [id |-> i, title |-> Surf, slug |-> RowSlugs[i], content |-> Wave, excerpt |-> <<>>,
     image_url |-> <<>>, category_id |-> IF mixed /\ i % 2 = 0 THEN 2 ELSE 1,
     author_id |-> 1, status |-> IF mixed /\ i = 3 THEN "draft" ELSE "published",
     is_featured |-> 0, view_count |-> 0,
     created_at |-> 0 - (IF paired THEN (n - i) \div 2 ELSE n - i),
     updated_at |-> 0 - (IF paired THEN (n - i) \div 2 ELSE n - i)]
StoredTables ==
    { [i \in 1..n |-> StoredRow(i, n, mixed, paired)] :
        n \in 0..MaxRows, mixed \in BOOLEAN, paired \in BOOLEAN }
RelatedInit ==
    /\ news \in StoredTables
    /\ nextId = Cardinality(DOMAIN news) + 1
    /\ cache = EmptyCache
    /\ now = 0
    /\ req = [r \in Reqs |-> Idle]
    /\ last = NoCall
    /\ old = [k \in {} |-> "no"]
\* The slugs asked for: those of the oldest and of the newest row.
RelatedSlugs == { <<RowSlugs[1]>> } \cup { <<RowSlugs[i]>> : i \in {Cardinality(DOMAIN news)} \ {0} }
RelatedNext ==
    \/ Ready /\ \E slug \in RelatedSlugs : NewsSlug(1, "GET", slug)
    \/ NewsSlugRelated(1)
    \/ getNewsBySlugSelect(1) \/ getNewsBySlugCache(1) \/ incrementViewCount(1)
    \/ getNewsListSelect(1) \/ getNewsListCount(1) \/ getNewsListCache(1)
RelatedSpec == RelatedInit /\ [][RelatedNext]_vars

\* PUT /api/news/[id] and GET /api/news/slug/[slug] requests over a table
\* news that earlier requests have filled.
UpdateNext ==
    \/ RelatedNext
    \/ Ready /\ \E id \in {<<"1">>, <<"2">>}, got \in Got, body \in Bodies :
                    NewsId(1, "PUT", id, got, body)
    \/ updateNewsUpdate(1) \/ updateNewsDone(1)
UpdateSpec == RelatedInit /\ [][UpdateNext]_vars

\* The handlers with the mock-mode switch in either position: what the routes
\* do where MOCK_MODE is false as well as where it is true.  Requests are
\* served one after another; the clock stands still.
HandlerStarts(r) ==
    \/ \E mockMode \in BOOLEAN, got \in Got, query \in FewQueries, mockData \in MockExports :
          News(r, "GET", mockMode, got, query, EmptyBody,
               mockData.latestNews, mockData.featuredNews)
    \/ \E mockMode \in BOOLEAN, got \in Got, body \in Bodies :
          News(r, "POST", mockMode, got, DefaultQuery, body, <<>>, <<>>)
    \/ \E mockMode \in BOOLEAN, mockCategories \in MockCategoryExports :
          Categories(r, "GET", mockMode, mockCategories)
    \/ \E id \in RouteIds, got \in Got, body \in Bodies : NewsId(r, "PUT", id, got, body)
    \/ \E id \in RouteIds, got \in Got : NewsId(r, "DELETE", id, got, EmptyBody)
HandlerNext ==
    \/ Ready /\ HandlerStarts(1)
    \/ createNewsInsert(1) \/ createNewsDone(1)
    \/ getCategoriesSelect(1) \/ getCategoriesCache(1)
    \/ updateNewsUpdate(1) \/ updateNewsDone(1)
    \/ deleteNewsDelete(1) \/ deleteNewsDone(1)
    \/ getNewsListSelect(1) \/ getNewsListCount(1) \/ getNewsListCache(1)
HandlerSpec == Init /\ [][HandlerNext]_vars

\* Articles created by POST /api/news with and without a status, updated and
\* deleted through /api/news/[id], and read by GET /api/news and
\* GET /api/news/[id]; the handlers go to the service (MOCK_MODE false).
PublishBodies ==
    { Body(Some(Reef), Some(<<"a">>), Some(2), Some(Published)), BodyWithout("status") }
PublishStarts(r) ==
    \/ \E got \in Got, body \in PublishBodies :
          News(r, "POST", FALSE, got, DefaultQuery, body, <<>>, <<>>)
    \/ \E got \in Got, query \in FewQueries :
          News(r, "GET", FALSE, got, query, EmptyBody, <<>>, <<>>)
    \/ \E id \in RouteIds, got \in Got, body \in PublishBodies :
          NewsId(r, "PUT", id, got, body)
    \/ \E method \in {"GET", "DELETE"}, id \in RouteIds, got \in Got :
          NewsId(r, method, id, got, EmptyBody)
PublishNext ==
    \/ Ready /\ PublishStarts(1)
    \/ createNewsInsert(1) \/ createNewsDone(1)
    \/ updateNewsUpdate(1) \/ updateNewsDone(1)
    \/ deleteNewsDelete(1) \/ deleteNewsDone(1)
    \/ getNewsListSelect(1) \/ getNewsListCount(1) \/ getNewsListCache(1)
    \/ getNewsBySlugSelect(1) \/ getNewsBySlugCache(1) \/ incrementViewCount(1)
PublishSpec == Init /\ [][PublishNext]_vars

\* Two requests interleave at the awaits of their store queries; the clock
\* stands still.  The first slot runs the reads and, while the second is
\* idle, the writes; the second slot runs a write while the first is busy
\* with a read.
RaceNext ==
    \/ ReadStarts(1, Slugs, ListInputs)
    \/ req[2].op = "idle" /\ WriteStarts(1, NewsInputs, {1})
    \/ req[1].op \in ReadOps /\ WriteStarts(2, NewsInputs, {1})
    \/ \E r \in Reqs : Steps(r)
RaceSpec == Init /\ [][RaceNext]_vars

\* The listing of the service under its filters, requests one after another.
FilterData ==
    { NewsData(Surf, "a", 1, "published", TRUE),
      NewsData(Reef, "b", 1, "published", FALSE),
      NewsData(Surf, "c", 2, "draft", TRUE) }
FilterInputs ==
    { Options(None, None, None, None, None),
      Options(Some(1), Some(1), None, None, None),
      Options(Some(1), None, Some(1), None, None),
      Options(None, None, None, Some(TRUE), None),
      Options(None, None, None, None, Some(<<"s", "U">>)),
      Options(Some(0 - 1), None, None, None, None) }
FilterNext ==
    \/ AllIdle /\ \E options \in FilterInputs : getNewsListStart(1, "service", options)
    \/ AllIdle /\ \E d \in FilterData : createNewsStart(1, "service", d)
    \/ AllIdle /\ \E id \in Ids, d \in FilterData : updateNewsStart(1, "service", id, d)
    \/ getNewsListSelect(1) \/ getNewsListCount(1) \/ getNewsListCache(1)
    \/ createNewsInsert(1) \/ createNewsDone(1)
    \/ updateNewsUpdate(1) \/ updateNewsDone(1)
FilterSpec == Init /\ [][FilterNext]_vars

\* The listing of /api/news alone.
ListingNext ==
    \/ \E envValue \in EnvValues, query \in Queries, mockData \in MockExports :
          GetNews(1, envValue, query, mockData.latestNews, mockData.featuredNews)
    \/ \E envValue \in EnvValues, query \in FewQueries, mockData \in MockExports :
          News(1, "GET", MOCK_MODE(envValue), [threw |-> TRUE, session |-> None], query,
               EmptyBody, mockData.latestNews, mockData.featuredNews)
ListingSpec == Init /\ [][ListingNext]_vars

(***************************************************************************)
(* Properties.                                                             *)
(***************************************************************************)
KeyOf(op, arg) ==
    CASE op = "getNewsBySlug" -> SlugKey(arg)
      [] op = "getNewsList" -> KeyOfList(arg)
      [] op = "getCategories" -> CategoriesKey

\* What the store answers to a read now.
Answers(op, arg, n) ==
    CASE op = "getNewsList" ->
            { [news |-> rows, total |-> SelectCount(n, arg.categoryId, arg.featured,
                                                    arg.searchQuery)] :
                rows \in SelectList(n, arg.limit, arg.offset, arg.categoryId,
                                    arg.featured, arg.searchQuery) }
      [] op = "getCategories" -> { SelectCategories(n) }

\* C1: requests running one after another, a getNewsList or getCategories
\* that starts right after a createNews, updateNews or deleteNews returned
\* without error is not served from the cache: it queries the store and,
\* unless that query fails, returns what the store holds after the write;
\* and no getNewsList or getCategories is ever served an entry whose payload
\* was read before a write changed the store.
C1_CacheClearedByWrite ==
    (last.op \in {"getNewsList", "getCategories"}) =>
        /\ last.hit => ~last.stale
        /\ last.before.op \in WriteOps =>
              /\ ~last.hit
              /\ last.queries >= 1
              /\ last.failed = "no" => last.ret \in Answers(last.op, last.arg, news)

\* A getNewsList or getCategories whose key was cached when the write before
\* it returned has queried the store again.
C1_Witness ==
    /\ last.op \in {"getNewsList", "getCategories"}
    /\ last.before.op \in WriteOps
    /\ last.before.cleared
    /\ last.failed = "no"

\* C2: no read is served from the cache a payload that was read from the
\* store before a createNews, updateNews or deleteNews changed the store.
C2_NoStaleHit ==
    (last.op \in ReadOps /\ last.hit) => ~last.stale

\* C3: a read that starts is served from the cache, with the payload of the
\* entry and without a query, exactly when its key has an entry younger than
\* 300000 ms; a read that is not queries the store and, the query having
\* succeeded, overwrites the entry with the result and the time of the
\* continuation.
C3_Step ==
    /\ (last'.op \in ReadOps) =>
          LET cacheKey == KeyOf(last'.op, last'.arg)
          IN  IF last'.hit
              THEN /\ cacheKey \in DOMAIN cache
                   /\ now - cache[cacheKey].timestamp < 300000
                   /\ last'.ret = cache[cacheKey].data
                   /\ last'.queries = 0
                   /\ UNCHANGED <<news, cache>>
              ELSE last'.queries >= 1
    /\ \A r \in Reqs :
          /\ (req[r].op = "idle" /\ req'[r].op \in ReadOps) =>
                LET cacheKey == KeyOf(req'[r].op, req'[r].arg)
                IN  ~(cacheKey \in DOMAIN cache /\ now - cache[cacheKey].timestamp < 300000)
          /\ (req[r].op \in ReadOps /\ req[r].pc \in {"selected", "counted"}
                /\ req'[r] # req[r]) =>
                LET cacheKey == KeyOf(req[r].op, req[r].arg)
                IN  /\ cacheKey \in DOMAIN cache'
                    /\ cache'[cacheKey].timestamp = now
                    /\ cache'[cacheKey].data =
                          (IF req[r].op = "getNewsBySlug" THEN req[r].res ELSE Val(req[r].res))
C3_CacheValidity == [][C3_Step]_vars

\* A read is querying the store while the entry of its key is 300000 ms old.
C3_Witness ==
    \E r \in Reqs :
        /\ req[r].op \in ReadOps
        /\ req[r].pc = "select"
        /\ KeyOf(req[r].op, req[r].arg) \in DOMAIN cache
        /\ now - cache[KeyOf(req[r].op, req[r].arg)].timestamp = 300000

\* The case of C4: a getNewsBySlug has returned that started right after a
\* getNewsBySlug of the same slug returned, within the time-to-live of the
\* entry the first call left (if it left one), the slug being that of a
\* published article.
TwiceBySlug ==
    /\ last.op = "getNewsBySlug"
    /\ last.before.op = "getNewsBySlug"
    /\ IsSome(last.before.entry) => last.before.at - Val(last.before.entry) < 300000
    /\ \E i \in DOMAIN news : news[i].slug = last.arg /\ news[i].status = "published"
Increments(call) == IF call.incremented THEN 1 ELSE 0

C5_Step ==
    \A id \in DOMAIN news \cap DOMAIN news' :
        /\ news'[id].view_count >= news[id].view_count
        /\ news'[id].view_count # news[id].view_count =>
              /\ last'.op = "getNewsBySlug"
              /\ last'.incremented
              /\ Val(last'.ret).id = id
              /\ news'[id].view_count = news[id].view_count + 1
C5_ViewCountMonotone == [][C5_Step]_vars

\* An updateNews has returned true for an article that has been viewed.
C5_Witness ==
    /\ last.op = "updateNews"
    /\ last.ret = TRUE
    /\ last.arg.id \in DOMAIN news
    /\ news[last.arg.id].view_count >= 1

\* C6: the listing of GET /api/news in mock mode holds min(L, total - O)
\* items when O < total and none otherwise, L the limit, O the offset and
\* total the total of the response.
C6_PageOfListing ==
    (last.via = "GET /api/news") =>
        LET L == last.query.limit
            O == last.query.offset
            total == last.meta.total
        IN  Len(last.data) = (IF O < total THEN Min(L, total - O) ELSE 0)

\* The same count for getNewsList called on the service, requests running
\* one after another.
C6_PageOfService ==
    (last.op = "getNewsList") =>
        LET L == last.arg.limit
            O == last.arg.offset
            total == last.ret.total
        IN  Len(last.ret.news) = (IF O < total THEN Min(L, total - O) ELSE 0)

\* The articles C7 counts: published, of the category when one is given,
\* featured when featured is asked for, with the search text in the title,
\* the content or the excerpt when one is given.
Contains(text, q) == includes(toLowerCase(text), toLowerCase(q))
Matching(n, o) ==
    { i \in DOMAIN n :
        /\ n[i].status = "published"
        /\ IsSome(o.categoryId) => n[i].category_id = Val(o.categoryId)
        /\ o.featured => n[i].is_featured = 1
        /\ (IsSome(o.searchQuery) /\ Val(o.searchQuery) # <<>>) =>
              \/ Contains(n[i].title, Val(o.searchQuery))
              \/ Contains(n[i].content, Val(o.searchQuery))
              \/ Contains(n[i].excerpt, Val(o.searchQuery)) }
SameFilters(o1, o2) ==
    /\ o1.categoryId = o2.categoryId
    /\ o1.featured = o2.featured
    /\ o1.searchQuery = o2.searchQuery

\* C7: requests running one after another, the total of a getNewsList whose
\* queries the store answered is the number of published articles matching
\* the filters, whatever limit and offset are; so the totals cached for the
\* same filters under different limits and offsets are equal.
C7_TotalOfFilters ==
    /\ (last.op = "getNewsList" /\ last.failed = "no") =>
          last.ret.total = Cardinality(Matching(news, last.arg))
    /\ \A x, y \in FilterInputs :
          LET o1 == Destructure(x)
              o2 == Destructure(y)
          IN  (/\ SameFilters(o1, o2)
               /\ KeyOfList(o1) \in DOMAIN cache
               /\ KeyOfList(o2) \in DOMAIN cache) =>
                  cache[KeyOfList(o1)].data.total = cache[KeyOfList(o2)].data.total

\* A listing cut by its limit has returned a total above the items it holds,
\* while the store also holds an article that is not counted.
C7_Witness ==
    /\ last.op = "getNewsList" /\ last.failed = "no"
    /\ Len(last.ret.news) < last.ret.total
    /\ last.arg.limit # DefaultLimit
    /\ KeyOfList(Destructure(Options(None, None, None, None, None))) \in DOMAIN cache

\* C8: an UPDATE or DELETE whose id matches no row leaves table news as it
\* is; updateNews and deleteNews then return false without throwing, and the
\* PUT and DELETE handlers answer 404 with success false.
C8_Step ==
    /\ \A r \in Reqs :
          (/\ req[r].op \in {"updateNews", "deleteNews"}
           /\ req[r].pc \in {"update", "delete"}
           /\ req[r].arg.id \notin DOMAIN news) => news' = news
    /\ (/\ last'.op \in {"updateNews", "deleteNews"}
        /\ ~last'.threw
        /\ ~last'.found) =>
          /\ last'.ret = FALSE
          /\ news' = news
          /\ last'.via \in {"PUT", "DELETE"} =>
                last'.resp = Some([status |-> 404, success |-> FALSE])
C8_NoRowIsFalse == [][C8_Step]_vars

\* The PUT handler has answered 404 for an id that matches no row.
C8_Witness ==
    /\ last.op = "updateNews" /\ last.via = "PUT"
    /\ ~last.threw /\ ~last.found
    /\ last.arg.id \notin DOMAIN news
    /\ last.resp = Some([status |-> 404, success |-> FALSE])

\* C9: no read throws; a read whose store query failed returns null
\* (getNewsBySlug), { news: [], total: 0 } (getNewsList) or [] (getCategories).
C9_ReadsReturnNoData ==
    (last.op \in ReadOps) =>
        /\ ~last.threw
        /\ last.failed = "read" =>
              last.ret = (CASE last.op = "getNewsBySlug" -> None
                            [] last.op = "getNewsList" -> [news |-> <<>>, total |-> 0]
                            [] last.op = "getCategories" -> <<>>)

\* The count query of a getNewsList has failed after the query of the rows
\* had returned rows.
C9_Witness ==
    /\ last.op = "getNewsList"
    /\ last.failed = "read"
    /\ last.queries = 2
    /\ \E i \in DOMAIN news : news[i].status = "published"

\* C10: a createNews, updateNews or deleteNews whose statement the store
\* rejects or fails to execute throws after that one statement, leaving the
\* cache and table news as they are; the PUT and DELETE handlers answer 500
\* with success false.
C10_Step ==
    (last'.op \in WriteOps /\ last'.failed = "write") =>
        /\ last'.threw
        /\ last'.queries = 1
        /\ UNCHANGED <<news, nextId, cache>>
        /\ \A r \in Reqs : req'[r].op = "idle"
        /\ last'.via \in {"PUT", "DELETE"} =>
              last'.resp = Some([status |-> 500, success |-> FALSE])
C10_WriteErrorsThrow == [][C10_Step]_vars

\* A createNews of a slug the table already holds has thrown, and the cache
\* still has its entries.
C10_Witness ==
    /\ last.op = "createNews"
    /\ last.threw
    /\ InsertRejected(news, last.arg)
    /\ DOMAIN cache # {}

\* C11: on the read routes, a call of the service whose store query failed is
\* answered with a success envelope (data substituted from the mock data),
\* never with a failure or a not-found.
C11_ReadRoutes ==
    { "GET /api/news", "GET /api/categories", "GET /api/news/[id]",
      "GET /api/news/slug/[slug]" }
C11_ReadErrorsRecovered ==
    (/\ last.op \in ReadOps
     /\ last.via \in C11_ReadRoutes
     /\ last.failed = "read"
     /\ IsSome(last.resp)) => Val(last.resp).success

\* C12: GET /api/news/[id] and GET /api/news/slug/[slug] answer 404 only when
\* table news holds no published article with the slug asked for; a lookup
\* whose store query failed is never answered 404.
C12_SlugRoutes == { "GET /api/news/[id]", "GET /api/news/slug/[slug]" }
C12_NotFoundIsAbsence ==
    (/\ last.op = "getNewsBySlug"
     /\ last.via \in C12_SlugRoutes
     /\ last.resp = Some([status |-> 404, success |-> FALSE])) =>
        /\ last.failed # "read"
        /\ \A i \in DOMAIN news :
              ~(news[i].slug = last.arg /\ news[i].status = "published")

\* C13: a POST /api/news or PUT /api/news/[id] without a session or without a
\* session user, and a DELETE /api/news/[id] without a session, without a
\* session user or with a user whose role is not admin, is answered 401
\* before any call of the service: no call is started, and table news and the
\* cache are as they were, so a later fetch by slug finds what it found.
C13_Denied(method, session) ==
    \/ ~IsSome(session)
    \/ ~IsSome(Val(session).user)
    \/ method = "DELETE" /\ Val(Val(session).user).role # "admin"
C13_Gate(via) ==
    /\ last' = [via |-> via, op |-> "none", resp |-> Some([status |-> 401, success |-> FALSE])]
    /\ UNCHANGED <<news, nextId, cache, req>>
\* The route a step belongs to: that of the call it starts, else that of the
\* answer it gives.
C13_Via == IF req'[1].op # "idle" THEN req'[1].via ELSE last'.via
C13_Step ==
    /\ (AllIdle /\ C13_Via \in {"PUT", "DELETE"}) =>
          \A id \in RouteIds, body \in Bodies,
             session \in { s \in Sessions : C13_Denied(C13_Via, s) } :
                NewsId(1, C13_Via, id, [threw |-> FALSE, session |-> session], body)
                    => C13_Gate(C13_Via)
    /\ (AllIdle /\ C13_Via = "POST /api/news") =>
          \A envValue \in EnvValues, body \in Bodies,
             session \in { s \in Sessions : C13_Denied("POST", s) } :
                News(1, "POST", MOCK_MODE(envValue), [threw |-> FALSE, session |-> session],
                     DefaultQuery, body, <<>>, <<>>)
                    => C13_Gate("POST /api/news")
C14_Lacking(body) ==
    \/ ~IsSome(body.title) \/ ~IsSome(body.slug)
    \/ ~IsSome(body.content) \/ ~IsSome(body.categoryId)
C14_Bad(via) ==
    /\ last' = [via |-> via, op |-> "none", resp |-> Some([status |-> 400, success |-> FALSE])]
    /\ UNCHANGED <<news, nextId, cache, req>>
C14_Users == { s \in Sessions : IsSome(s) /\ IsSome(Val(s).user) }
C14_Step ==
    /\ (AllIdle /\ C13_Via = "PUT") =>
          \A id \in RouteIds, session \in C14_Users,
             body \in { b \in Bodies : C14_Lacking(b) } :
                NewsId(1, "PUT", id, [threw |-> FALSE, session |-> session], body)
                    => C14_Bad("PUT")
    /\ (AllIdle /\ C13_Via = "POST /api/news") =>
          \A envValue \in EnvValues, session \in C14_Users,
             body \in { b \in Bodies : C14_Lacking(b) } :
                News(1, "POST", MOCK_MODE(envValue), [threw |-> FALSE, session |-> session],
                     DefaultQuery, body, <<>>, <<>>)
                    => C14_Bad("POST /api/news")
C14_InputValidation == [][C14_Step]_vars

\* A POST has been answered 400 while table news holds rows.
C14_Witness ==
    /\ last = [via |-> "POST /api/news", op |-> "none",
               resp |-> Some([status |-> 400, success |-> FALSE])]
    /\ DOMAIN news # {}

\* C15 as stated: a request whose method the route does not support is always
\* answered 405 with success false.
C15_Unsupported ==
    { method \o " /api/news" : method \in Methods \ {"GET", "POST"} }
        \cup { method \o " /api/news/[id]" : method \in Methods \ {"GET", "PUT", "DELETE"} }
        \cup { method \o " /api/news/slug/[slug]" : method \in Methods \ {"GET"} }
        \cup { method \o " /api/categories" : method \in Methods \ {"GET"} }
C15_AlwaysNotAllowed ==
    (last.via \in C15_Unsupported) =>
        last = [via |-> last.via, op |-> "none",
                resp |-> Some([status |-> 405, success |-> FALSE])]

\* C15: no route calls the service for a method it does not support, and it
\* answers 405 with success false, except that /api/news and /api/news/[id],
\* which await getSession before they look at the method, answer 500 when
\* getSession throws; when getSession returns they answer 405.
C15_SessionFirst ==
    { method \o " /api/news" : method \in Methods \ {"GET", "POST"} }
        \cup { method \o " /api/news/[id]" : method \in Methods \ {"GET", "PUT", "DELETE"} }
C15_NotAllowed(via) ==
    /\ last' = [via |-> via, op |-> "none", resp |-> Some([status |-> 405, success |-> FALSE])]
    /\ UNCHANGED <<news, nextId, cache, req>>
C15_Returned == { got \in Got : ~got.threw }
C15_Step ==
    /\ \A r \in Reqs : req'[r].op # "idle" => req'[r].via \notin C15_Unsupported
    /\ (last'.via \in C15_Unsupported) =>
          /\ last'.op = "none"
          /\ \/ last'.resp = Some([status |-> 405, success |-> FALSE])
             \/ /\ last'.resp = Some([status |-> 500, success |-> FALSE])
                /\ last'.via \in C15_SessionFirst
    /\ (AllIdle /\ last'.via \in C15_SessionFirst) =>
          /\ \A method \in Methods \ {"GET", "PUT", "DELETE"}, id \in RouteIds,
                got \in C15_Returned :
                   NewsId(1, method, id, got, EmptyBody)
                       => C15_NotAllowed(method \o " /api/news/[id]")
          /\ \A method \in Methods \ {"GET", "POST"}, envValue \in EnvValues,
                got \in C15_Returned :
                   News(1, method, MOCK_MODE(envValue), got, DefaultQuery, EmptyBody,
                        <<>>, <<>>)
                       => C15_NotAllowed(method \o " /api/news")
C15_MethodNotAllowed == [][C15_Step]_vars

\* A PATCH /api/news/[id] has been answered 405 while table news holds rows.
C15_Witness ==
    /\ last = [via |-> "PATCH /api/news/[id]", op |-> "none",
               resp |-> Some([status |-> 405, success |-> FALSE])]
    /\ DOMAIN news # {}

C17_Step ==
    \A envValue \in EnvValues \ {None, Some("true")} :
        /\ \A got \in C15_Returned, mockData \in MockExports :
              News(1, "GET", MOCK_MODE(envValue), got, DefaultQuery, EmptyBody,
                   mockData.latestNews, mockData.featuredNews)
                  => req'[1].op = "getNewsList"
        /\ \A mockCategories \in MockCategoryExports :
              Categories(1, "GET", MOCK_MODE(envValue), mockCategories)
                  => req'[1].op = "getCategories"
C17_EnvDisablesMockMode == [][C17_Step]_vars

\* C18: in mock mode a GET /api/news without parameters is answered 200 with
\* success true and the items of a non-empty latestNews, also when getSession
\* throws, without any call of the service: the store is not consulted,
\* reachable or not.
C18_Step ==
    (AllIdle /\ C13_Via = "GET /api/news") =>
        \A got \in Got, mockData \in StockedExports :
            News(1, "GET", TRUE, got, DefaultQuery, EmptyBody,
                 mockData.latestNews, mockData.featuredNews) =>
                /\ last'.op = "none"
                /\ last'.resp = Some([status |-> 200, success |-> TRUE])
                /\ Len(last'.data) > 0
                /\ \A i \in 1..Len(last'.data) :
                      \E j \in 1..Len(mockData.latestNews) :
                          last'.data[i].id = mockData.latestNews[j].id
                /\ UNCHANGED <<news, nextId, cache, req>>
C18_MockListing == [][C18_Step]_vars

\* A GET /api/news whose getSession threw has been answered with items while
\* table news holds rows.
C18_Witness ==
    /\ last.via = "GET /api/news"
    /\ last.op = "none"
    /\ last.resp = Some([status |-> 200, success |-> TRUE])
    /\ last.caught
    /\ Len(last.data) > 0
    /\ DOMAIN news # {}

\* C19: the meta of a successful GET /api/news has pageSize = limit,
\* page = floor(offset / limit) + 1 and totalPages = ceil(total / limit), total
\* being the total the response reports.
C19_IsFloor(q, a, b) ==
    IF b > 0 THEN q * b <= a /\ a < (q + 1) * b
    ELSE q * b >= a /\ a > (q + 1) * b
C19_IsCeil(q, a, b) ==
    IF b > 0 THEN (q - 1) * b < a /\ a <= q * b
    ELSE (q - 1) * b > a /\ a >= q * b
C19_PaginationMeta ==
    (/\ last.via = "GET /api/news"
     /\ last.op = "none"
     /\ last.resp = Some([status |-> 200, success |-> TRUE])) =>
        /\ last.meta.pageSize = last.query.limit
        /\ C19_IsFloor(last.meta.page - 1, last.query.offset, last.query.limit)
        /\ C19_IsCeil(last.meta.totalPages, last.meta.total, last.query.limit)

\* C20: when its queries succeed, GET /api/news/slug/[slug] of a published
\* article answers with relatedNews of at most 3 items, each a published
\* article of the category of the article and none the article itself: the 3
\* created last among the other published articles of the category, or all of
\* them when they are fewer than 3.
C20_Others(article) ==
    { i \in DOMAIN news :
        /\ news[i].status = "published"
        /\ news[i].category_id = article.category_id
        /\ i # article.id }
C20_RelatedNews ==
    (/\ last.via = "GET /api/news/slug/[slug]"
     /\ last.op = "getNewsList"
     /\ last.failed = "no") =>
        LET article == Val(last.resp).data
            relatedNews == Val(last.resp).relatedNews
            ids == { relatedNews[k].id : k \in 1..Len(relatedNews) }
        IN  /\ Val(last.resp).status = 200 /\ Val(last.resp).success
            /\ Len(relatedNews) <= 3
            /\ ids \subseteq C20_Others(article)
            /\ Cardinality(ids) = Len(relatedNews)
            /\ Len(relatedNews) = Min(3, Cardinality(C20_Others(article)))
            /\ \A i \in C20_Others(article) \ ids, j \in ids :
                  news[i].created_at <= news[j].created_at

\* The article is the oldest of five published articles of its category: the
\* list query returned the four others, and relatedNews holds three of them.
C20_Witness ==
    /\ last.via = "GET /api/news/slug/[slug]"
    /\ last.op = "getNewsList"
    /\ last.failed = "no"
    /\ Len(last.ret.news) = 4
    /\ Val(last.resp).data.id \notin { last.ret.news[k].id : k \in 1..4 }
    /\ Len(Val(last.resp).relatedNews) = 3

(***************************************************************************)
(* The API client (utils/api-client.ts): six calls over axios.  A request  *)
(* ends without a response (the transport failed) or with a response of a  *)
(* status and a body; axios rejects in the first case and for a status     *)
(* outside 200..299, with an error that carries the response if any.       *)
(***************************************************************************)
ApiCalls ==
    { "getNewsList", "getNewsBySlug", "getCategories", "createNews", "updateNews",
      "deleteNews" }
NoResponse == [kind |-> "none"]
HttpResponse(status, data) == [kind |-> "response", status |-> status, data |-> data]
\* What a response body may be: an envelope with or without message and
\* data, or text that is no JSON object.
JsonBody(success, message, data) ==
    [kind |-> "json", success |-> success, message |-> message, data |-> data]
TextBody == [kind |-> "text"]
ResponseBodies ==
    { JsonBody(TRUE, None, Some(1)), JsonBody(TRUE, Some(Surf), None),
      JsonBody(FALSE, Some(Reef), None), JsonBody(FALSE, Some(<<>>), None),
      JsonBody(FALSE, None, None), TextBody }
Statuses == { 200, 201, 400, 401, 404, 405, 500 }
Outcomes ==
    { NoResponse } \cup { HttpResponse(status, data) : status \in Statuses, data \in ResponseBodies }

\* axios without the default validateStatus: no status is an error.
AxiosRejectsTransportOnly(outcome) == outcome.kind = "none"

\* validateStatus: status >= 200 && status < 300
AxiosRejects(outcome) ==
    outcome.kind = "none" \/ outcome.status < 200 \/ outcome.status >= 300

\* err.response?.data?.message || fallback
MessageOf(outcome, fallback) ==
    IF outcome.kind = "none" THEN fallback
    ELSE IF outcome.data.kind # "json" THEN fallback
    ELSE IF Falsy(outcome.data.message) THEN fallback
    ELSE Val(outcome.data.message)

emptyNews ==
    [id |-> 0, title |-> <<>>, slug |-> <<>>, content |-> <<>>, excerpt |-> <<>>,
     image_url |-> <<>>, category_id |-> 0, category_name |-> <<>>, author_id |-> 0,
     status |-> <<>>, is_featured |-> 0, view_count |-> 0, created_at |-> <<>>,
     updated_at |-> <<>>]

\* The object a catch block returns.
ApiCaught(call, outcome) ==
    CASE call = "getNewsList" ->
            [kind |-> "list", success |-> FALSE, data |-> <<>>,
             meta |-> [total |-> 0, page |-> 1, pageSize |-> 10, totalPages |-> 0]]
      [] call = "getNewsBySlug" -> [kind |-> "news", success |-> FALSE, data |-> emptyNews]
      [] call = "getCategories" -> [kind |-> "categories", success |-> FALSE, data |-> <<>>]
      [] call = "createNews" ->
            [kind |-> "message", success |-> FALSE,
             message |-> MessageOf(outcome, <<"E", "r", "r", "o", " ", "c">>)]
      [] call = "updateNews" ->
            [kind |-> "message", success |-> FALSE,
             message |-> MessageOf(outcome, <<"E", "r", "r", "o", " ", "u">>)]
      [] call = "deleteNews" ->
            [kind |-> "message", success |-> FALSE,
             message |-> MessageOf(outcome, <<"E", "r", "r", "o", " ", "d">>)]

\* try { const response = await apiClient.<method>(...); return response.data }
\* catch (error) { console.error(...); return <default> }
ApiReturn(call, outcome) ==
    IF AxiosRejects(outcome)
    THEN [threw |-> FALSE, value |-> ApiCaught(call, outcome)]
    ELSE [threw |-> FALSE, value |-> outcome.data]

\* A call of the client: the request ends with the outcome, the call returns.
ApiCall(call, outcome) ==
    /\ last' = [via |-> "apiClient", op |-> "none", call |-> call, outcome |-> outcome,
                result |-> ApiReturn(call, outcome)]
    /\ UNCHANGED <<news, nextId, cache, now, req, old>>

ClientNext == \E call \in ApiCalls, outcome \in Outcomes : ApiCall(call, outcome)
ClientSpec == Init /\ [][ClientNext]_vars

\* C21: no call of the API client throws; a call whose request ended without
\* a response or with a status outside 200..299 returns success false with
\* an empty list and meta {0, 1, 10, 0}, an empty list, a placeholder record
\* of id 0, or a message; a call whose request succeeded returns the body of
\* the response unchanged.
C21_ClientNeverThrows ==
    (last.via = "apiClient") =>
        LET outcome == last.outcome
            value == last.result.value
            failed == outcome.kind = "none" \/ outcome.status \notin 200..299
        IN  /\ ~last.result.threw
            /\ ~failed => value = outcome.data
            /\ failed =>
                  /\ value.kind \in {"list", "news", "categories", "message"}
                  /\ value.success = FALSE
                  /\ last.call = "getNewsList" =>
                        /\ value.data = <<>>
                        /\ value.meta.total = 0 /\ value.meta.totalPages = 0
                  /\ last.call = "getNewsBySlug" => value.data.id = 0
                  /\ last.call = "getCategories" => value.data = <<>>
                  /\ last.call \in {"createNews", "updateNews", "deleteNews"} =>
                        /\ value.message # <<>>
                        /\ (outcome.kind = "response" /\ outcome.data.kind = "json"
                              /\ ~Falsy(outcome.data.message)) =>
                                 value.message = Val(outcome.data.message)

\* A deleteNews answered 401 with a message has returned that message.
C21_Witness ==
    /\ last.via = "apiClient"
    /\ last.call = "deleteNews"
    /\ last.outcome = HttpResponse(401, JsonBody(FALSE, Some(Reef), None))
    /\ last.result = [threw |-> FALSE,
                      value |-> [kind |-> "message", success |-> FALSE, message |-> Reef]]

\* C22: the UPDATE of updateNews(id, data) sets title, slug, content, excerpt,
\* image_url, category_id, status and is_featured of row id from data (and
\* its updated_at); it leaves every other row as it is, and of row id the
\* author_id, whatever authorId the data carry, the view_count and the
\* created_at.
C22_Step ==
    \A r \in Reqs :
        (/\ req[r].op = "updateNews" /\ req[r].pc = "update"
         /\ req'[r].op = "updateNews") =>
            LET id == req[r].arg.id
                d == req[r].arg.data
            IN  /\ DOMAIN news' = DOMAIN news
                /\ \A i \in DOMAIN news \ {id} : news'[i] = news[i]
                /\ id \in DOMAIN news =>
                      /\ news'[id].title = d.title /\ news'[id].slug = d.slug
                      /\ news'[id].content = d.content /\ news'[id].excerpt = d.excerpt
                      /\ news'[id].image_url = d.imageUrl
                      /\ news'[id].category_id = d.categoryId
                      /\ news'[id].status = d.status
                      /\ news'[id].is_featured = (IF d.isFeatured THEN 1 ELSE 0)
                      /\ news'[id].id = id
                      /\ news'[id].author_id = news[id].author_id
                      /\ news'[id].view_count = news[id].view_count
                      /\ news'[id].created_at = news[id].created_at
C22_UpdateReplacesFields == [][C22_Step]_vars

\* An UPDATE by another user than the author has changed a row that has been
\* viewed, in a table of several rows.
C22_Witness ==
    /\ req[1].op = "updateNews" /\ req[1].pc = "updated"
    /\ req[1].found
    /\ news[req[1].arg.id].author_id # req[1].arg.data.authorId
    /\ news[req[1].arg.id].view_count > 0
    /\ news[req[1].arg.id].title = req[1].arg.data.title
    /\ Cardinality(DOMAIN news) > 1

\* C23: with requests served one after another, every article getNewsBySlug
\* or getNewsList returns is a row of table news whose status is published;
\* an article created as draft is in no listing and is not found by its slug.
C23_Published(item) ==
    /\ item.id \in DOMAIN news
    /\ news[item.id].status = "published"
C23_OnlyPublishedRead ==
    /\ (last.op = "getNewsBySlug" /\ IsSome(last.ret)) =>
          /\ C23_Published(Val(last.ret))
          /\ news[Val(last.ret).id].slug = last.arg
    /\ (last.op = "getNewsList") =>
          \A k \in 1..Len(last.ret.news) : C23_Published(last.ret.news[k])

\* The slug of a draft has been looked up without a failure of the store,
\* and nothing was found.
C23_Witness ==
    /\ last.op = "getNewsBySlug"
    /\ last.failed = "no"
    /\ last.ret = None
    /\ \E i \in DOMAIN news : news[i].slug = last.arg /\ news[i].status = "draft"

\* C24: a getCategories whose query did not fail returns each row of table
\* categories once, in the order of the names, with news_count the number of
\* published rows of news that reference it: 0 when there is none, drafts not
\* counted.
C24_CategoriesCounted ==
    (last.op = "getCategories" /\ last.failed = "no") =>
        LET ret == last.ret
        IN  /\ Len(ret) = Cardinality(CategoryTable)
            /\ { ret[k].id : k \in 1..Len(ret) } = CategoryIds
            /\ \A k \in 1..Len(ret) :
                  /\ [id |-> ret[k].id, name |-> ret[k].name, slug |-> ret[k].slug]
                        \in CategoryTable
                  /\ ret[k].news_count =
                        Cardinality({ i \in DOMAIN news :
                                        /\ news[i].category_id = ret[k].id
                                        /\ news[i].status = "published" })
            /\ \A k, l \in 1..Len(ret) :
                  k < l => NameRank(ret[k].name) < NameRank(ret[l].name)

\* getCategories has returned count 0 for a category that a draft references.
C24_Witness ==
    /\ last.op = "getCategories"
    /\ last.failed = "no"
    /\ \E k \in 1..Len(last.ret) :
          /\ last.ret[k].news_count = 0
          /\ \E i \in DOMAIN news :
                news[i].category_id = last.ret[k].id /\ news[i].status = "draft"

(***************************************************************************)
(* The 500 responses of the catch blocks: the JSON body the handler sends   *)
(* for the value it caught, under the NODE_ENV of the process.              *)
(***************************************************************************)
\* 'Erro interno do servidor' and 'Erro ao buscar notícia'
InternalText == <<"E", "r", "r", "o", " ", "i">>
SlugText == <<"E", "r", "r", "o", " ", "b">>
ErrorName == <<"E", "r", "r", "o", "r">>

\* What a catch block may catch: an Error with a message, or a value that is
\* no Error (a thrown string).
ErrorOf(message) == [kind |-> "Error", message |-> message]
ThrownText(text) == [kind |-> "string", text |-> text]
Errors ==
    { ErrorOf(Surf), ErrorOf(Reef), ErrorOf(Wave), ErrorOf(<<>>),
      ThrownText(Surf), ThrownText(Reef), ThrownText(<<>>) }
NodeEnvs == { None, Some("development"), Some("production"), Some("test") }
ErrorRoutes ==
    { "/api/news/[id]", "/api/news", "/api/categories", "/api/news/slug/[slug]" }

\* error.toString() and String(error)
ErrorString(error) ==
    IF error.kind = "Error"
    THEN IF error.message = <<>> THEN ErrorName
         ELSE ErrorName \o <<":", " ">> \o error.message
    ELSE error.text

\* res.status(500).json({ success: false, message: ..., error: ... })
ErrorBody(route, error, nodeEnv) ==
    CASE route = "/api/news/[id]" ->
            [success |-> FALSE,
             message |-> IF error.kind = "Error" /\ error.message # <<>>
                         THEN error.message ELSE InternalText,
             error |-> IF nodeEnv = Some("development") THEN Some(ErrorString(error))
                       ELSE None]
      [] route = "/api/news" ->
            [success |-> FALSE,
             message |-> IF error.kind = "Error" THEN error.message ELSE InternalText,
             error |-> IF nodeEnv = Some("development") THEN Some(ErrorString(error))
                       ELSE None]
      [] route = "/api/categories" ->
            [success |-> FALSE,
             message |-> IF error.kind = "Error" THEN error.message ELSE InternalText,
             error |-> IF nodeEnv = Some("development")
                       THEN Some(IF error.kind = "Error" THEN ErrorString(error)
                                 ELSE <<"E", "r", "r", "o", " ", "d">>)
                       ELSE None]
      [] route = "/api/news/slug/[slug]" ->
            [success |-> FALSE, message |-> SlugText, error |-> None]

\* The catch block of a handler answers 500 for what it caught.
HandlerFails(route, error, nodeEnv) ==
    /\ last' = [via |-> route, op |-> "none", resp |-> Response(500, FALSE),
                caught |-> error, nodeEnv |-> nodeEnv,
                body |-> ErrorBody(route, error, nodeEnv)]
    /\ UNCHANGED <<news, nextId, cache, now, req, old>>

ErrorNext ==
    \E route \in ErrorRoutes, error \in Errors, nodeEnv \in NodeEnvs :
        HandlerFails(route, error, nodeEnv)
ErrorSpec == Init /\ [][ErrorNext]_vars

\* C25: unless NODE_ENV is 'development', the body of a 500 response carries
\* no text of what was caught: no error field, and a message that is the
\* fixed text of the route.
C25_MessageElided ==
    (/\ last.via \in ErrorRoutes
     /\ last.resp = Some([status |-> 500, success |-> FALSE])
     /\ last.nodeEnv # Some("development")) =>
        /\ last.body.error = None
        /\ last.body.message \in {InternalText, SlugText}

(***************************************************************************)
(* The calls of the service with slugs and search strings that spell the   *)
(* text of other keys.                                                     *)
(***************************************************************************)
Undefined == <<"u", "n", "d", "e", "f", "i", "n", "e", "d">>
KeySlugs == { "a", "list_10_0_undefined_false_undefined" }
KeyInputs ==
    { Options(None, None, None, None, None),
      Options(None, None, None, None, Some(Undefined)) }
KeyNext ==
    \/ Tick
    \/ AllIdle /\ ServiceStarts(1, KeySlugs, KeyInputs, NewsInputs, Ids)
    \/ Steps(1)
KeySpec == Init /\ [][KeyNext]_vars

\* C26: a read served from the cache right after a read stored the entry of
\* its key is the same operation with the same normalized arguments as the
\* read that stored it.
C26_Stored == last.op \in ReadOps /\ ~last.hit /\ last.failed # "read"
C26_Step ==
    (/\ C26_Stored
     /\ last'.op \in ReadOps
     /\ last'.hit
     /\ KeyOf(last'.op, last'.arg) = KeyOf(last.op, last.arg)) =>
        /\ last'.op = last.op
        /\ last'.arg = last.arg
C26_KeysInjective == [][C26_Step]_vars

(***************************************************************************)
(* Requests of getNewsBySlug that interleave at the awaits of their store   *)
(* queries, over a stored table; no write runs and the clock stands still.  *)
(***************************************************************************)
TwinSlugs == { "a", "c" }
TwinNext ==
    \/ \E r \in Reqs, slug \in TwinSlugs : getNewsBySlugStart(r, "service", slug)
    \/ \E r \in Reqs : getNewsBySlugSelect(r)
    \/ \E r \in Reqs : getNewsBySlugCache(r)
    \/ \E r \in Reqs : incrementViewCount(r)
TwinSpec == RelatedInit /\ [][TwinNext]_vars

\* C27: with no write and within one TTL window, the view count of an
\* article is incremented at most once, however the getNewsBySlug requests
\* for its slug interleave.
C27_IncrementedOnce == \A i \in DOMAIN news : news[i].view_count <= 1

\* C28: a read whose store query failed has created or refreshed no entry
\* for its key: when it returns the key has no entry younger than the TTL,
\* so the next read of the key queries the store; and a getNewsBySlug whose
\* view-count increment failed returns the article it read, without
\* throwing, and the entry of its key holds that article.
C28_NoFreshEntry(cacheKey) ==
    \/ cacheKey \notin DOMAIN cache
    \/ now - cache[cacheKey].timestamp >= CACHE_TTL
C28_FailedReadsLeaveCache ==
    /\ (last.op \in ReadOps /\ last.failed = "read") =>
          C28_NoFreshEntry(KeyOf(last.op, last.arg))
    /\ (last.op = "getNewsBySlug" /\ last.failed = "increment") =>
          /\ ~last.threw
          /\ IsSome(last.ret)
          /\ SlugKey(last.arg) \in DOMAIN cache
          /\ cache[SlugKey(last.arg)].data = last.ret
C28_Witness ==
    /\ last.op \in ReadOps
    /\ last.failed = "read"
    /\ KeyOf(last.op, last.arg) \in DOMAIN cache

\* C29: every success response of GET /api/news has meta.pageSize >= 1,
\* meta.page >= 1 and meta.totalPages >= 0, and no more items than pageSize,
\* whatever the limit and offset of the query string.
C29_MetaInRange ==
    (/\ last.via = "GET /api/news"
     /\ last.op = "none"
     /\ last.resp = Some([status |-> 200, success |-> TRUE])) =>
        /\ last.meta.pageSize >= 1
        /\ last.meta.page >= 1
        /\ last.meta.totalPages >= 0
        /\ Len(last.data) <= last.meta.pageSize

(***************************************************************************)
(* The news listing page (NewsPage).  In PageSpec slot 1 of req holds the   *)
(* component: its React state, the dependencies its effects last ran with,  *)
(* and the numbers of its requests in flight; last holds the requests the   *)
(* effects issued in the step just taken.  A step is an event (a response,  *)
(* a click) with the state updates of its handler, or the run of the        *)
(* effects after the render that follows.                                   *)
(***************************************************************************)
MaxPages == 2
MaxChanges == 2
itemsPerPage == 6
CategoryNames == { "Todas", "Esportes" }

\* The state after the first render: the initial values of useState.
Mounted ==
    [op |-> "NewsPage", pc |-> "effects",
     selectedCategory |-> "Todas", selectedCategoryId |-> None, currentPage |-> 1,
     articles |-> "empty", categories |-> "empty", isLoading |-> TRUE, error |-> None,
     fetchDataDeps |-> None, fetchWhenIdleDeps |-> None,
     categoriesInFlight |-> 0, newsInFlight |-> 0, changes |-> 0]

\* The identity of the memoized fetchNews: it changes with currentPage and
\* selectedCategoryId (searchTerm and sortBy are left as they are).
fetchNewsDeps(p) == <<p.currentPage, p.selectedCategoryId>>

\* The parameters of the GET /api/news that fetchNews issues.
NewsParams(p) ==
    [limit |-> itemsPerPage, offset |-> (p.currentPage - 1) * itemsPerPage,
     categoryId |-> p.selectedCategoryId]

\* fetchNews up to its await: setIsLoading(true); setError(null); axios.get.
fetchNewsIssued(p) ==
    [p EXCEPT !.isLoading = TRUE, !.error = None, !.newsInFlight = @ + 1]

Mount(r) ==
    /\ req[r].op = "idle"
    /\ req' = [req EXCEPT ![r] = Mounted]
    /\ last' = NoCall
    /\ UNCHANGED <<news, nextId, cache, now, old>>

\* The effects after a render, each run when one of its dependencies changed:
\*   useEffect(fetchData, [fetchNews]) issues GET /api/categories;
\*   useEffect(() => { if (!isLoading) fetchNews() }, [fetchNews, isLoading]).
\* The render that follows their setIsLoading(true) runs the second effect
\* again, with isLoading true: it does nothing.  (The effect on articles
\* does nothing: articles.length of the response envelope is undefined.)
RunEffects(r) ==
    /\ req[r].op = "NewsPage" /\ req[r].pc = "effects"
    /\ LET p == req[r]
           runFetchData == p.fetchDataDeps # Some(fetchNewsDeps(p))
           runWhenIdle == p.fetchWhenIdleDeps # Some(<<fetchNewsDeps(p), p.isLoading>>)
           fetchWhenIdle == runWhenIdle /\ ~p.isLoading
           issued == runFetchData \/ fetchWhenIdle
           q == [p EXCEPT !.pc = "idle",
                          !.isLoading = issued \/ @,
                          !.error = IF issued THEN None ELSE @,
                          !.categoriesInFlight = IF runFetchData THEN @ + 1 ELSE @,
                          !.newsInFlight = IF fetchWhenIdle THEN @ + 1 ELSE @,
                          !.fetchDataDeps = Some(fetchNewsDeps(p))]
       IN  /\ req' = [req EXCEPT ![r] = [q EXCEPT !.fetchWhenIdleDeps =
                                                      Some(<<fetchNewsDeps(p), q.isLoading>>)]]
           /\ last' = [via |-> "NewsPage", op |-> "none",
                       categories |-> runFetchData,
                       news |-> IF fetchWhenIdle THEN Some(NewsParams(p)) ELSE None]
    /\ UNCHANGED <<news, nextId, cache, now, old>>

\* fetchData after its await of GET /api/categories: setCategories and
\* await fetchNews(), or the catch block and finally setIsLoading(false).
CategoriesResponse(r, ok) ==
    /\ req[r].op = "NewsPage" /\ req[r].pc = "idle"
    /\ req[r].categoriesInFlight > 0
    /\ LET p == [req[r] EXCEPT !.pc = "effects", !.categoriesInFlight = @ - 1]
       IN  req' = [req EXCEPT ![r] =
                      IF ok THEN fetchNewsIssued([p EXCEPT !.categories = "envelope"])
                      ELSE [p EXCEPT !.error = Some("data"), !.isLoading = FALSE]]
    /\ last' = NoCall
    /\ UNCHANGED <<news, nextId, cache, now, old>>

\* fetchNews after its await of GET /api/news: setArticles(response.data) and
\* filterAndSortArticles, which throws on the envelope ([...object]), or the
\* catch block; finally setIsLoading(false).  When fetchData awaited it, its
\* own finally sets isLoading false once more.
NewsResponse(r, ok) ==
    /\ req[r].op = "NewsPage" /\ req[r].pc = "idle"
    /\ req[r].newsInFlight > 0
    /\ req' = [req EXCEPT ![r] =
                  [@ EXCEPT !.pc = "effects", !.newsInFlight = @ - 1,
                            !.articles = IF ok THEN "envelope" ELSE @,
                            !.error = Some("news"), !.isLoading = FALSE]]
    /\ last' = NoCall
    /\ UNCHANGED <<news, nextId, cache, now, old>>

\* paginate(pageNumber)
paginate(r, pageNumber) ==
    /\ req[r].op = "NewsPage" /\ req[r].pc = "idle"
    /\ req[r].changes < MaxChanges
    /\ req' = [req EXCEPT ![r] = [@ EXCEPT !.pc = "effects", !.changes = @ + 1,
                                           !.currentPage = pageNumber]]
    /\ last' = NoCall
    /\ UNCHANGED <<news, nextId, cache, now, old>>

\* handleCategoryChange(category): categories.find is no function once
\* categories holds the response envelope, and the handler throws after
\* setSelectedCategory; on the empty array it finds nothing.
handleCategoryChange(r, category) ==
    /\ req[r].op = "NewsPage" /\ req[r].pc = "idle"
    /\ req[r].changes < MaxChanges
    /\ req' = [req EXCEPT ![r] =
                  IF category = "Todas" \/ req[r].categories = "empty"
                  THEN [@ EXCEPT !.pc = "effects", !.changes = @ + 1,
                                 !.selectedCategory = category,
                                 !.selectedCategoryId = None, !.currentPage = 1]
                  ELSE [@ EXCEPT !.pc = "effects", !.changes = @ + 1,
                                 !.selectedCategory = category]]
    /\ last' = NoCall
    /\ UNCHANGED <<news, nextId, cache, now, old>>

PageNext ==
    \/ Mount(1)
    \/ RunEffects(1)
    \/ \E ok \in BOOLEAN : CategoriesResponse(1, ok)
    \/ \E ok \in BOOLEAN : NewsResponse(1, ok)
    \/ \E pageNumber \in 1..MaxPages : paginate(1, pageNumber)
    \/ \E category \in CategoryNames : handleCategoryChange(1, category)
PageSpec == Init /\ [][PageNext]_vars

\* React runs the effects after every render, and every request is answered.
PageLiveSpec ==
    /\ PageSpec
    /\ WF_vars(Mount(1))
    /\ WF_vars(RunEffects(1))
    /\ WF_vars(\E ok \in BOOLEAN : CategoriesResponse(1, ok))
    /\ WF_vars(\E ok \in BOOLEAN : NewsResponse(1, ok))

\* C30: after the page mounted it eventually stays not loading, with no
\* request in flight and no effect left to run.
C30_AtRest ==
    /\ req[1].op = "NewsPage"
    /\ req[1].pc = "idle"
    /\ ~req[1].isLoading
    /\ req[1].newsInFlight = 0
C30_Quiesces == <>[]C30_AtRest

====
